---- MODULE Spec2Model ----
\* A model of src/bot.js: the Telegram bot's in-memory stores, the AI proxy
\* (getAIResponse) with its message handler, the conversation context
\* selection, the control-panel callbacks and the media relay.
EXTENDS Integers, Sequences, FiniteSets, TLC

VARIABLES
    defaultPersonality,   \* BOT_CONFIG.defaultPersonality (configuration, fixed at start)
    aiEnabled,            \* let aiEnabled (bot.js:1839)
    uploadEnabled,        \* let uploadEnabled (bot.js:50)
    conversationHistory,  \* const conversationHistory = {} (bot.js:34): chat id -> message list
    userCache,            \* let userCache = new Set() (bot.js:37)
    memFile,              \* otak.json (MEMORY_FILE)
    userCacheFile,        \* user_cache.json (USER_CACHE_FILE)
    aiFile,               \* ai_status.json (AI_STATUS_FILE)
    uploadFile,           \* upload_status.json (UPLOAD_STATUS_FILE)
    savePending,          \* a setImmediate(saveConversationHistory) is queued
    handlers,             \* invocations of the bot.on('message') callback
    relays,               \* invocations of the media callbacks (photo, video, ...)
    commands,             \* invocations of the bot.onText callbacks and of the group callbacks
    handshake,            \* the await bot.getMe() of the start is pending (bot.js:1752)
    exitCode,             \* the code the process exited with, NoExit while it has not
    errorCall,            \* the running or the last call of handleError (bot.js:416-471)
    panelAccounts,        \* panel_accounts.json, the ledger of the panel accounts
    clock,                \* Date.now(), in milliseconds after ClockBase
    ctx,                  \* the last call of getRelevantConversationContext
    started,              \* number of handler invocations started so far
    process,              \* the Node process: "off", "running", "stopping", "exited", "killed"
    boots,                \* number of times the process was started so far
    toggles,              \* the toggle_ai / toggle_upload callbacks handled so far
    flushes,              \* number of full flushes (shutdown, backup timer) run so far
    corrupted             \* number of otak.json.corrupted-<time> files in the store directory

vars == <<defaultPersonality, aiEnabled, uploadEnabled, conversationHistory,
          userCache, memFile, userCacheFile, aiFile, uploadFile, savePending,
          handlers, relays, commands, handshake, exitCode, errorCall,
          panelAccounts, clock, ctx, started,
          process, boots, toggles, flushes, corrupted>>

-----------------------------------------------------------------------------
\* Bounds of the model.

NumChats == 2
NumUsers == 1
MaxHistLen == 3
MaxBudget == 52
NumHandlers == 2
MaxStarted == 2
NumRelays == 1
MaxBoots == 2
MaxToggles == 2
MaxFlushes == 2
NumCommands == 1
MaxAccounts == 2

\* Program constants.

DefaultMaxTokens == 900
MessageOverhead == 10

-----------------------------------------------------------------------------
\* Values.

Chats == 1..NumChats
Users == 1..NumUsers

\* The value of a JavaScript expression that evaluated to undefined; it is
\* outside every set of texts used below.
Undefined == "<undefined>"

\* The other JavaScript values that are not texts: null and the booleans.
Null == "<null>"
true == "<true>"
false == "<false>"

\* The value of exitCode while the process has not called process.exit; the
\* codes the program exits with are 0 (bot.js:1731) and 1 (bot.js:1778).
NoExit == -1

\* The truthiness of a value: undefined, null, false and the empty string are
\* falsy.
Truthy(v) == v \notin {Undefined, Null, false, ""}

\* The operator "!".
Not(v) == IF Truthy(v) THEN false ELSE true

\* Date.now(); the model does not tell the instants of one run apart.
Now == "<now>"

Texts == {"hello"}
LongText == "a long message"
Personalities == [friendly |-> "be friendly", formal |-> "be formal"]
PersonalityKeys == DOMAIN Personalities

\* The object literal pushed at bot.js:227-231, 237-241, 252-256, 1481-1485.
Message(role, content) == [role |-> role, content |-> content, timestamp |-> Now]

\* A file of the store directory: absent, present with a text that is not
\* JSON (data is then never read), or present with the value JSON.parse
\* gives for its text.
NoFile == [exists |-> FALSE]
Garbled(data) == [exists |-> TRUE, parses |-> FALSE, data |-> data]
File(data) == [exists |-> TRUE, parses |-> TRUE, data |-> data]

Max(a, b) == IF a >= b THEN a ELSE b

-----------------------------------------------------------------------------
\* getRelevantConversationContext (bot.js:192-212)

\* msg.content.length + 10
messageTokens(msg) == Len(msg.content) + MessageOverhead

\* The loop with the comparison "<" in place of "<=".
RECURSIVE ContextLoopStrict(_, _, _, _, _)
ContextLoopStrict(hist, i, currentTokens, relevantMessages, maxTokens) ==
    IF i < 1 THEN [status |-> "ok", messages |-> relevantMessages]
    ELSE IF hist[i].content = Undefined
         THEN [status |-> "TypeError", messages |-> <<>>]
    ELSE IF currentTokens + messageTokens(hist[i]) < maxTokens
         THEN ContextLoopStrict(hist, i - 1, currentTokens + messageTokens(hist[i]),
                                <<hist[i]>> \o relevantMessages, maxTokens)
    ELSE [status |-> "ok", messages |-> relevantMessages]

\* The loop that takes the newest message whatever it costs.
RECURSIVE ContextLoopKeepNewest(_, _, _, _, _)
ContextLoopKeepNewest(hist, i, currentTokens, relevantMessages, maxTokens) ==
    IF i < 1 THEN [status |-> "ok", messages |-> relevantMessages]
    ELSE IF hist[i].content = Undefined
         THEN [status |-> "TypeError", messages |-> <<>>]
    ELSE IF i = Len(hist) \/ currentTokens + messageTokens(hist[i]) <= maxTokens
         THEN ContextLoopKeepNewest(hist, i - 1, currentTokens + messageTokens(hist[i]),
                                    <<hist[i]>> \o relevantMessages, maxTokens)
    ELSE [status |-> "ok", messages |-> relevantMessages]

\* The for loop, from index i down to 1; relevantMessages.unshift(msg) puts
\* msg in front.  Reading .length of an undefined content throws a TypeError.
RECURSIVE ContextLoop(_, _, _, _, _)
ContextLoop(hist, i, currentTokens, relevantMessages, maxTokens) ==
    IF i < 1 THEN [status |-> "ok", messages |-> relevantMessages]
    ELSE IF hist[i].content = Undefined
         THEN [status |-> "TypeError", messages |-> <<>>]
    ELSE IF currentTokens + messageTokens(hist[i]) <= maxTokens
         THEN ContextLoop(hist, i - 1, currentTokens + messageTokens(hist[i]),
                          <<hist[i]>> \o relevantMessages, maxTokens)
    ELSE [status |-> "ok", messages |-> relevantMessages]

getRelevantConversationContext(chatId, maxTokens) ==
    IF chatId \notin DOMAIN conversationHistory
        \/ Len(conversationHistory[chatId]) = 0
    THEN [status |-> "ok", messages |-> <<>>]
    ELSE ContextLoop(conversationHistory[chatId],
                     Len(conversationHistory[chatId]), 0, <<>>, maxTokens)

-----------------------------------------------------------------------------
\* States in which no handler is running.

IdleHandler ==
    [pc |-> "idle", chatId |-> 0, userId |-> 0, text |-> "", reqs |-> 0,
     resp |-> "", ret |-> "", outcome |-> "", fresh |-> FALSE,
     preLen |-> 0, postLen |-> 0, resetSince |-> FALSE]
IdleRelay ==
    [pc |-> "idle", ignored |-> FALSE, kind |-> "", chatId |-> 0, size |-> 0,
     downloads |-> 0, download |-> [success |-> FALSE, error |-> ""],
     uploads |-> 0, host |-> [kind |-> "", type |-> "", text |-> ""],
     result |-> [success |-> FALSE, url |-> "", error |-> ""], reply |-> "",
     handled |-> 0]
IdleCommand ==
    [pc |-> "idle", name |-> "", text |-> "", chatId |-> 0, arg |-> Undefined,
     usage |-> 0, vendorCalls |-> 0, handled |-> 0, notified |-> 0,
     escaped |-> FALSE, tempFile |-> FALSE, userId |-> 0, package |-> "",
     username |-> "", password |-> "", appended |-> FALSE]
NoCtx == [called |-> FALSE]
NoErrorCall == [pc |-> "none"]

\* Handlers are dispatched while the process lives; gracefulShutdown leaves
\* the event loop running until process.exit (bot.js:1730-1731).
Alive == process \in {"running", "stopping"}

\* A process that was started in an empty store directory.
StoresFresh ==
    /\ process = "running"
    /\ boots = 1
    /\ toggles = <<>>
    /\ flushes = 0
    /\ corrupted = 0
    /\ aiEnabled = true
    /\ uploadEnabled = true
    /\ userCache = {}
    /\ memFile = NoFile
    /\ userCacheFile = NoFile
    /\ aiFile = NoFile
    /\ uploadFile = NoFile
    /\ savePending = FALSE
    /\ handshake = FALSE
    /\ errorCall = NoErrorCall
    /\ panelAccounts = NoFile
    /\ clock = 0
    /\ exitCode = NoExit

NoInvocation ==
    /\ handlers = [h \in 1..NumHandlers |-> IdleHandler]
    /\ relays = [r \in 1..NumRelays |-> IdleRelay]
    /\ commands = [k \in 1..NumCommands |-> IdleCommand]
    /\ started = 0

ConfigChoices == {"", "friendly", "missing"}

-----------------------------------------------------------------------------
\* The context selection applied to the histories of bounded length.

CtxMessages ==
    {Message("user", "a"), Message("user", "hello"),
     Message("assistant", LongText), Message("assistant", Undefined),
     Message("system", Personalities.friendly)}

RECURSIVE SeqsUpTo(_, _)
SeqsUpTo(S, n) ==
    IF n = 0 THEN {<<>>}
    ELSE LET shorter == SeqsUpTo(S, n - 1)
         IN  shorter \cup {Append(q, m) : q \in shorter, m \in S}

CtxBudgets == (0..MaxBudget) \cup {DefaultMaxTokens}

InitCtx ==
    /\ defaultPersonality = "friendly"
    /\ StoresFresh
    /\ NoInvocation
    /\ ctx = NoCtx
    /\ \/ conversationHistory = <<>>
       \/ \E hist \in SeqsUpTo(CtxMessages, MaxHistLen) :
              conversationHistory = (1 :> hist)

CallContext(chatId, maxTokens) ==
    /\ ctx' = [called |-> TRUE, chatId |-> chatId, maxTokens |-> maxTokens,
               result |-> getRelevantConversationContext(chatId, maxTokens)]
    /\ UNCHANGED <<defaultPersonality, errorCall, panelAccounts, clock, commands, handshake, exitCode, process, boots, toggles, flushes, corrupted, aiEnabled, uploadEnabled,
                   conversationHistory, userCache, memFile, userCacheFile,
                   aiFile, uploadFile, savePending, handlers, relays, started>>

NextCtx == \E chatId \in Chats, maxTokens \in CtxBudgets : CallContext(chatId, maxTokens)

SpecCtx == InitCtx /\ [][NextCtx]_vars

RECURSIVE SumTokens(_)
SumTokens(msgs) ==
    IF msgs = <<>> THEN 0
    ELSE Len(Head(msgs).content) + 10 + SumTokens(Tail(msgs))

TextContents(hist) == \A i \in 1..Len(hist) : hist[i].content # Undefined

\* The history the last context call was made on, when it was non-empty and
\* all its contents are texts.
CtxOnTexts ==
    /\ ctx.called
    /\ ctx.chatId \in DOMAIN conversationHistory
    /\ Len(conversationHistory[ctx.chatId]) > 0
    /\ TextContents(conversationHistory[ctx.chatId])

\* C1: for a non-empty history of text messages and a budget B >= 0 the
\* result is the suffix hist[k+1..n] of the history, its summed cost
\* (length of content + 10 per message) is at most B, and it is maximal: k = 0
\* (the whole history) or the cost of hist[k] added to the sum exceeds B; so
\* every message older than the first one that does not fit is left out.
C1_MaximalSuffix ==
    CtxOnTexts =>
        LET hist == conversationHistory[ctx.chatId]
            res == ctx.result.messages
            k == Len(hist) - Len(res)
        IN  /\ ctx.result.status = "ok"
            /\ k >= 0
            /\ res = SubSeq(hist, k + 1, Len(hist))
            /\ SumTokens(res) <= ctx.maxTokens
            /\ k = 0 \/ SumTokens(res) + Len(hist[k].content) + 10 > ctx.maxTokens

\* A call that left out an older message which would have fitted on its own
\* in the budget that remained.
C1_Witness ==
    /\ CtxOnTexts
    /\ LET hist == conversationHistory[ctx.chatId]
           res == ctx.result.messages
       IN  /\ res # <<>>
           /\ \E j \in 1..(Len(hist) - Len(res) - 1) :
                  SumTokens(res) + Len(hist[j].content) + 10 <= ctx.maxTokens

\* C2 as claimed: for a non-empty history the result is never empty and it
\* ends with the newest message, also when that message alone costs more
\* than the budget.
C2_NewestAlwaysIncluded ==
    CtxOnTexts =>
        LET hist == conversationHistory[ctx.chatId]
            res == ctx.result.messages
        IN  /\ res # <<>>
            /\ res[Len(res)] = hist[Len(hist)]

\* C2: when the newest message alone costs more than the budget the result
\* is empty; the result is non-empty, and ends with the newest message,
\* exactly when the newest message fits in the budget.
C2_EmptyWhenNewestOversized ==
    CtxOnTexts =>
        LET hist == conversationHistory[ctx.chatId]
            res == ctx.result.messages
            newest == hist[Len(hist)]
        IN  IF Len(newest.content) + 10 > ctx.maxTokens
            THEN res = <<>>
            ELSE res # <<>> /\ res[Len(res)] = newest

\* A call on a history whose newest message alone exceeds the budget.
C2_Witness ==
    /\ CtxOnTexts
    /\ LET hist == conversationHistory[ctx.chatId]
       IN  Len(hist[Len(hist)].content) + 10 > ctx.maxTokens
    /\ ctx.result = [status |-> "ok", messages |-> <<>>]

-----------------------------------------------------------------------------
\* Persistence of the conversation history (bot.js:158-170).

\* The test of the role alone.
ValidMessageRoleOnly(msg) == Truthy(msg.role)

\* msg.role && msg.content
ValidMessage(msg) == Truthy(msg.role) /\ Truthy(msg.content)

\* The document saveConversationHistory writes for the history hist.
validData(hist) == [c \in DOMAIN hist |-> SelectSeq(hist[c], ValidMessage)]

saveConversationHistory(hist) == File(validData(hist))

\* A save that writes an empty array.
saveUserCacheEmpty(cache) == File({})

\* saveUserCache (bot.js:184-190): the array form of the set.
saveUserCache(cache) == File(cache)

\* saveAIStatus (bot.js:1853-1860) and saveUploadStatus (bot.js:64-71).
saveAIStatus(flag) == File([aiEnabled |-> flag])

\* A save that writes the value the flag had before it was negated.
saveUploadStatusStale(flag) == File([uploadEnabled |-> Not(flag)])

saveUploadStatus(flag) == File([uploadEnabled |-> flag])

-----------------------------------------------------------------------------
\* getAIResponse (bot.js:215-268)

\* BOT_CONFIG.errorMessages.aiDisabled and .apiFailure, the fixed strings of
\* the configuration.
AiDisabledMessage == "<errorMessages.aiDisabled>"
ApiFailureMessage == "<errorMessages.apiFailure>"

\* One list shared by all the chats: an assignment that every chat sees.
PutShared(hist, chatId, value) ==
    [c \in DOMAIN hist \cup {chatId} |-> value]

\* conversationHistory[chatId] = value
Put(hist, chatId, value) ==
    [c \in DOMAIN hist \cup {chatId} |-> IF c = chatId THEN value ELSE hist[c]]

\* The list a new chat starts with (bot.js:222-233): the system message of
\* the default personality if one is configured and it is a known key.
InitialHistory ==
    IF defaultPersonality # "" /\ defaultPersonality \in PersonalityKeys
    THEN <<Message("system", Personalities[defaultPersonality])>>
    ELSE <<>>

\* A pop that removes nothing.
popNothing(list) == list

\* Array.prototype.pop (bot.js:265): removes the last element, if any.
pop(list) == IF list = <<>> THEN list ELSE SubSeq(list, 1, Len(list) - 1)

\* The outcomes of the axios.get of bot.js:244: a network error or timeout, a
\* non-2xx status (axios rejects), a 2xx response whose body is null, a 2xx
\* response whose body has no result, a 2xx response with a result text.
Replies == {"fine"}
AIResponses ==
    {[kind |-> "neterr", result |-> Undefined],
     [kind |-> "non2xx", result |-> Undefined],
     [kind |-> "nullbody", result |-> Undefined],
     [kind |-> "noresult", result |-> Undefined]}
    \cup {[kind |-> "result", result |-> r] : r \in Replies}

\* The await of bot.js:244 and the read of response.data.result throw for
\* these; everything else reaches bot.js:252.
Throws(resp) == resp.kind \in {"neterr", "non2xx", "nullbody"}

\* getAIResponse without the check of aiEnabled.
getAIResponseEnterUnchecked(h, chatId, message) ==
    LET known == chatId \in DOMAIN conversationHistory
        base == IF known THEN conversationHistory[chatId] ELSE InitialHistory
    IN  /\ conversationHistory' =
               Put(conversationHistory, chatId, Append(base, Message("user", message)))
        /\ handlers' = [handlers EXCEPT ![h] =
               [@ EXCEPT !.pc = "await_ai", !.reqs = @ + 1, !.fresh = ~known,
                         !.preLen = IF known THEN Len(conversationHistory[chatId]) ELSE 0]]

\* getAIResponse that does not seed a new chat with the system message.
getAIResponseEnterUnseeded(h, chatId, message) ==
    IF ~Truthy(aiEnabled)
    THEN /\ handlers' = [handlers EXCEPT ![h] =
                [@ EXCEPT !.pc = "reply", !.ret = AiDisabledMessage,
                          !.outcome = "disabled"]]
         /\ UNCHANGED conversationHistory
    ELSE LET known == chatId \in DOMAIN conversationHistory
             base == IF known THEN conversationHistory[chatId] ELSE <<>>
         IN  /\ conversationHistory' =
                    Put(conversationHistory, chatId, Append(base, Message("user", message)))
             /\ handlers' = [handlers EXCEPT ![h] =
                    [@ EXCEPT !.pc = "await_ai", !.reqs = @ + 1, !.fresh = ~known,
                              !.preLen = IF known THEN Len(conversationHistory[chatId]) ELSE 0]]

\* getAIResponse from its call to its first await (bot.js:216-247): the
\* disabled notice is returned at once, and the caller then awaits
\* bot.sendMessage (bot.js:790); otherwise the history is created if absent,
\* the user message is pushed and the request is issued.
getAIResponseEnter(h, chatId, message) ==
    IF ~Truthy(aiEnabled)
    THEN /\ handlers' = [handlers EXCEPT ![h] =
                [@ EXCEPT !.pc = "reply", !.ret = AiDisabledMessage,
                          !.outcome = "disabled"]]
         /\ UNCHANGED conversationHistory
    ELSE LET known == chatId \in DOMAIN conversationHistory
             base == IF known THEN conversationHistory[chatId] ELSE InitialHistory
         IN  /\ conversationHistory' =
                    Put(conversationHistory, chatId, Append(base, Message("user", message)))
             /\ handlers' = [handlers EXCEPT ![h] =
                    [@ EXCEPT !.pc = "await_ai", !.reqs = @ + 1, !.fresh = ~known,
                              !.preLen = IF known THEN Len(conversationHistory[chatId]) ELSE 0]]

\* The catch block that issues the request again instead of giving up.
getAIResponseFailRetry(h, resp) ==
    /\ handlers' = [handlers EXCEPT ![h] =
           [@ EXCEPT !.reqs = @ + 1, !.resp = resp.kind, !.outcome = "failure"]]
    /\ UNCHANGED <<conversationHistory, savePending>>

\* The catch block of getAIResponse (bot.js:262-267).
getAIResponseFail(h, resp) ==
    LET chatId == handlers[h].chatId
        list == pop(conversationHistory[chatId])
    IN  /\ conversationHistory' = Put(conversationHistory, chatId, list)
        /\ handlers' = [handlers EXCEPT ![h] =
               [@ EXCEPT !.pc = "reply", !.resp = resp.kind,
                         !.ret = ApiFailureMessage,
                         !.outcome = "failure", !.postLen = Len(list),
                         !.resetSince = FALSE]]
        /\ UNCHANGED savePending

\* The rest of the try block of getAIResponse (bot.js:249-261).
getAIResponseSucceed(h, resp) ==
    LET chatId == handlers[h].chatId
        aiResponse == resp.result
        list == Append(conversationHistory[chatId], Message("assistant", aiResponse))
    IN  /\ conversationHistory' = Put(conversationHistory, chatId, list)
        /\ savePending' = TRUE
        /\ handlers' = [handlers EXCEPT ![h] =
               [@ EXCEPT !.pc = "reply", !.resp = resp.kind, !.ret = aiResponse,
                         !.outcome = "success", !.postLen = Len(list),
                         !.resetSince = FALSE]]

-----------------------------------------------------------------------------
\* The handler of free-text messages, bot.on('message') (bot.js:763-795).

\* bot.js:764-788: the message is free text (no no media).  With AI
\* disabled the handler returns at once.  A user seen for the first time is
\* added to the cache, the cache is saved and the operator is notified
\* (await); then the chat action is sent (await).  The invocation is kept in
\* the first free slot h.  MessageCallback is what the callback does to the
\* stores and to its own invocation.
\* A callback that awaits the notification of the operator before it
\* records the user.
MessageCallbackNotifiesFirst(h, chatId, userId, text) ==
    /\ handlers[h].pc = "idle"
    /\ \A g \in 1..(h - 1) : handlers[g].pc # "idle"
    /\ started < MaxStarted
    /\ started' = started + 1
    /\ IF ~Truthy(aiEnabled)
       THEN UNCHANGED <<handlers, userCache, userCacheFile>>
       ELSE /\ handlers' = [handlers EXCEPT ![h] =
                   [IdleHandler EXCEPT
                       !.pc = IF userId \notin userCache THEN "notify" ELSE "typing",
                       !.chatId = chatId, !.userId = userId, !.text = text]]
            /\ UNCHANGED <<userCache, userCacheFile>>

MessageCallback(h, chatId, userId, text) ==
    /\ handlers[h].pc = "idle"
    /\ \A g \in 1..(h - 1) : handlers[g].pc # "idle"
    /\ started < MaxStarted
    /\ started' = started + 1
    /\ IF ~Truthy(aiEnabled)
       THEN UNCHANGED <<handlers, userCache, userCacheFile>>
       ELSE IF userId \notin userCache
       THEN /\ userCache' = userCache \cup {userId}
            /\ userCacheFile' = saveUserCache(userCache')
            /\ handlers' = [handlers EXCEPT ![h] =
                   [IdleHandler EXCEPT !.pc = "notify", !.chatId = chatId,
                                       !.userId = userId, !.text = text]]
       ELSE /\ handlers' = [handlers EXCEPT ![h] =
                   [IdleHandler EXCEPT !.pc = "typing", !.chatId = chatId,
                                       !.userId = userId, !.text = text]]
            /\ UNCHANGED <<userCache, userCacheFile>>

MessageArrives(h, chatId, userId, text) ==
    /\ Alive
    /\ MessageCallback(h, chatId, userId, text)
    /\ UNCHANGED <<defaultPersonality, errorCall, panelAccounts, clock, commands, handshake, exitCode, process, boots, toggles, flushes, corrupted, aiEnabled, uploadEnabled,
                   conversationHistory, memFile, aiFile, uploadFile,
                   savePending, relays, ctx>>

\* bot.js:784: notifyAdmin settles (it swallows its own errors, bot.js:408-414)
\* and the handler goes on to bot.sendChatAction.
AdminNotified(h) ==
    /\ handlers[h].pc = "notify"
    /\ handlers' = [handlers EXCEPT ![h].pc = "typing"]
    /\ UNCHANGED <<defaultPersonality, errorCall, panelAccounts, clock, commands, handshake, exitCode, process, boots, toggles, flushes, corrupted, aiEnabled, uploadEnabled,
                   conversationHistory, userCache, memFile, userCacheFile,
                   aiFile, uploadFile, savePending, relays,
                   ctx, started>>

\* bot.js:788-789: sendChatAction settles.  If it was rejected the catch of
\* bot.js:792 hands the error to handleError and the handler returns;
\* otherwise getAIResponse runs up to its await.
ChatActionSettles(h, ok) ==
    /\ handlers[h].pc = "typing"
    /\ IF ok
       THEN getAIResponseEnter(h, handlers[h].chatId, handlers[h].text)
       ELSE /\ handlers' = [handlers EXCEPT ![h] = IdleHandler]
            /\ UNCHANGED conversationHistory
    /\ UNCHANGED <<defaultPersonality, errorCall, panelAccounts, clock, commands, handshake, exitCode, process, boots, toggles, flushes, corrupted, aiEnabled, uploadEnabled, userCache,
                   memFile, userCacheFile, aiFile, uploadFile, savePending,
                   relays, ctx, started>>

\* bot.js:244-267: the request of the completion endpoint settles.
AIResponds(h, resp) ==
    /\ handlers[h].pc = "await_ai"
    /\ IF Throws(resp)
       THEN getAIResponseFail(h, resp)
       ELSE getAIResponseSucceed(h, resp)
    /\ UNCHANGED <<defaultPersonality, errorCall, panelAccounts, clock, commands, handshake, exitCode, process, boots, toggles, flushes, corrupted, aiEnabled, uploadEnabled, userCache,
                   memFile, userCacheFile, aiFile, uploadFile, relays, ctx, started>>

\* bot.js:790-794: bot.sendMessage(chatId, aiResponse) settles and the
\* handler returns; a rejection (the platform rejects a message without text)
\* or the TypeError of aiResponse.substring on an undefined aiResponse is
\* caught and handed to handleError, which changes no store.
ReplySettles(h, ok) ==
    /\ handlers[h].pc = "reply"
    /\ handlers' = [handlers EXCEPT ![h] = IdleHandler]
    /\ UNCHANGED <<defaultPersonality, errorCall, panelAccounts, clock, commands, handshake, exitCode, process, boots, toggles, flushes, corrupted, aiEnabled, uploadEnabled,
                   conversationHistory, userCache, memFile, userCacheFile,
                   aiFile, uploadFile, savePending, relays,
                   ctx, started>>

\* bot.js:259: the callback queued by setImmediate(saveConversationHistory)
\* runs.  Several queued callbacks write the same document, so one flag
\* stands for the queue.
SaveImmediate ==
    /\ savePending
    /\ savePending' = FALSE
    /\ memFile' = saveConversationHistory(conversationHistory)
    /\ UNCHANGED <<defaultPersonality, errorCall, panelAccounts, clock, commands, handshake, exitCode, process, boots, toggles, flushes, corrupted, aiEnabled, uploadEnabled,
                   conversationHistory, userCache, userCacheFile, aiFile,
                   uploadFile, handlers, relays, ctx,
                   started>>

-----------------------------------------------------------------------------
\* The handler of inline buttons, bot.on('callback_query') (bot.js:1439-1719).

\* The key of a set_personality_<key> callback (bot.js:1476).
personalityKey(data) == SubSeq(data, Len("set_personality_") + 1, Len(data))

\* data.startsWith('set_personality_') (bot.js:1475)
IsSetPersonality(data) ==
    /\ Len(data) >= Len("set_personality_")
    /\ SubSeq(data, 1, Len("set_personality_")) = "set_personality_"

\* The handlers after the list of chat chatId was replaced (bot.js:875, 1446,
\* 1481): a call of getAIResponse that pushed onto the old list and still
\* awaits its request is marked as started before the reset.
afterReset(chatId) ==
    [h \in 1..NumHandlers |->
        IF handlers[h].pc = "await_ai" /\ handlers[h].chatId = chatId
        THEN [handlers[h] EXCEPT !.resetSince = TRUE]
        ELSE handlers[h]]

\* Names that every object inherits from Object.prototype: a lookup of one of
\* them in the personalities table gives a function, which is truthy and has
\* no systemMessage.
InheritedKeys == {"toString", "constructor"}

\* BOT_CONFIG.personalities[personalityKey] is truthy (bot.js:1477, 1479).
hasPersonality(key) == key \in PersonalityKeys \cup InheritedKeys

\* personality.systemMessage (bot.js:1483)
systemMessage(key) ==
    IF key \in PersonalityKeys THEN Personalities[key] ELSE Undefined

\* One invocation of the handler for the button data pressed in chat chatId.
\* The handler first awaits bot.answerCallbackQuery (bot.js:1442); a
\* rejection there is outside the try block and ends the handler.  The branch
\* of the button then changes its store and saves it in one synchronous
\* step; the awaits before and after that step (answerCallbackQuery,
\* sendMessage, editMessageReplyMarkup) touch no store, so this step stands
\* for the invocation.
CallbackQuery(data, chatId, answered) ==
    /\ Alive
    /\ answered
    /\ IF data = "reset_conversation"
       THEN /\ conversationHistory' = Put(conversationHistory, chatId, <<>>)
            /\ memFile' = saveConversationHistory(conversationHistory')
            /\ handlers' = afterReset(chatId)
            /\ UNCHANGED <<aiEnabled, uploadEnabled, aiFile, uploadFile, toggles>>
       ELSE IF IsSetPersonality(data)
       THEN /\ IF hasPersonality(personalityKey(data))
               THEN /\ conversationHistory' =
                           Put(conversationHistory, chatId,
                               <<Message("system", systemMessage(personalityKey(data)))>>)
                    /\ memFile' = saveConversationHistory(conversationHistory')
                    /\ handlers' = afterReset(chatId)
               ELSE UNCHANGED <<conversationHistory, memFile, handlers>>
            /\ UNCHANGED <<aiEnabled, uploadEnabled, aiFile, uploadFile, toggles>>
       ELSE IF data = "toggle_ai"
       THEN /\ Len(toggles) < MaxToggles
            /\ toggles' = Append(toggles, [flag |-> "ai", boot |-> boots])
            /\ aiEnabled' = Not(aiEnabled)
            /\ aiFile' = saveAIStatus(aiEnabled')
            /\ UNCHANGED <<uploadEnabled, conversationHistory, memFile, uploadFile,
                           handlers>>
       ELSE /\ data = "toggle_upload"
            /\ Len(toggles) < MaxToggles
            /\ toggles' = Append(toggles, [flag |-> "upload", boot |-> boots])
            /\ uploadEnabled' = Not(uploadEnabled)
            /\ uploadFile' = saveUploadStatus(uploadEnabled')
            /\ UNCHANGED <<aiEnabled, conversationHistory, memFile, aiFile,
                           handlers>>
    /\ UNCHANGED <<defaultPersonality, errorCall, panelAccounts, clock, commands, handshake, exitCode, process, boots, flushes, corrupted,
                   userCache, userCacheFile, savePending, relays,
                   ctx, started>>

-----------------------------------------------------------------------------
\* commandHandlers.clear (bot.js:873-883)

\* bot.js:874-878: the list of the chat is replaced by an empty one and the
\* store is saved, in one synchronous step; the send that follows touches no
\* store.
ClearCommand(chatId) ==
    /\ Alive
    /\ conversationHistory' = Put(conversationHistory, chatId, <<>>)
    /\ memFile' = saveConversationHistory(conversationHistory')
    /\ handlers' = afterReset(chatId)
    /\ UNCHANGED <<defaultPersonality, errorCall, panelAccounts, clock, commands, handshake, exitCode, process, boots, toggles, flushes, corrupted, aiEnabled, uploadEnabled, userCache,
                   userCacheFile, aiFile, uploadFile, savePending,
                   relays, ctx, started>>

-----------------------------------------------------------------------------
\* Loading the stores (bot.js:52-62, 135-156, 172-182, 1841-1851).

\* A load that never reads the file.
loadAIStatusIgnoresFile(file, current) == current

\* loadAIStatus: the value of aiEnabled after the call, current being its
\* value before.  A missing file leaves it; a text that is not JSON makes
\* JSON.parse throw, which is caught and logged; otherwise the field of the
\* parsed object is assigned, undefined when the object has no such field.
loadAIStatus(file, current) ==
    IF ~file.exists THEN current
    ELSE IF ~file.parses THEN current
    ELSE file.data.aiEnabled

\* loadUploadStatus, the same for uploadEnabled.
loadUploadStatus(file, current) ==
    IF ~file.exists THEN current
    ELSE IF ~file.parses THEN current
    ELSE file.data.uploadEnabled

\* loadUserCache: new Set(JSON.parse(data)).
loadUserCache(file, current) ==
    IF ~file.exists THEN current
    ELSE IF ~file.parses THEN current
    ELSE file.data

\* A null where a message object is expected; reading its role throws a
\* TypeError.
NullEntry == [role |-> Null, content |-> Null, timestamp |-> Null]

\* bot.js:142-147: the filter and the map applied to the list of one chat.
loadList(list) ==
    LET kept == SelectSeq(list, ValidMessage)
    IN  [i \in 1..Len(kept) |->
            [kept[i] EXCEPT !.timestamp = IF Truthy(@) THEN @ ELSE Now]]

Min(S) == CHOOSE x \in S : \A y \in S : x <= y

\* The for...in loop of bot.js:141-148 over the chats still to visit, in the
\* ascending order in which integer keys are enumerated.  The list of a chat
\* is assigned when its filter and map are done; a null in the list throws
\* before that, and the chats visited earlier keep what was assigned.
RECURSIVE loadChats(_, _, _)
loadChats(parsedData, todo, hist) ==
    IF todo = {} THEN [history |-> hist, threw |-> FALSE]
    ELSE LET chatId == Min(todo)
         IN  IF \E i \in 1..Len(parsedData[chatId]) : parsedData[chatId][i] = NullEntry
             THEN [history |-> hist, threw |-> TRUE]
             ELSE loadChats(parsedData, todo \ {chatId},
                            Put(hist, chatId, loadList(parsedData[chatId])))

\* loadConversationHistory in a process whose history is still empty: the
\* history after the call, and whether the catch block ran (it renames the
\* file).
loadConversationHistory(file) ==
    IF ~file.exists THEN [history |-> <<>>, threw |-> FALSE]
    ELSE IF ~file.parses THEN [history |-> <<>>, threw |-> TRUE]
    ELSE loadChats(file.data, DOMAIN file.data, <<>>)

-----------------------------------------------------------------------------
\* The life of the process (bot.js:1725-1780, 1863).

\* The process is started: the module is evaluated, which declares the
\* stores with their initial values (bot.js:34-37, 50, 1839) and, in the same
\* synchronous run, loads them (bot.js:1747-1749, 1863) before any handler is
\* dispatched.  The catch block of loadConversationHistory renames the file.
\* This action takes the start up to the settled handshake; Start below
\* stops at the await of the handshake.
Boot ==
    /\ process \in {"off", "exited", "killed"}
    /\ boots < MaxBoots
    /\ boots' = boots + 1
    /\ process' = "running"
    /\ LET loaded == loadConversationHistory(memFile)
       IN  /\ conversationHistory' = loaded.history
           /\ memFile' = IF loaded.threw THEN NoFile ELSE memFile
           /\ corrupted' = IF loaded.threw THEN corrupted + 1 ELSE corrupted
    /\ userCache' = loadUserCache(userCacheFile, {})
    /\ uploadEnabled' = loadUploadStatus(uploadFile, true)
    /\ aiEnabled' = loadAIStatus(aiFile, true)
    /\ savePending' = FALSE
    /\ handlers' = [h \in 1..NumHandlers |-> IdleHandler]
    /\ relays' = [r \in 1..NumRelays |-> IdleRelay]
    /\ commands' = [k \in 1..NumCommands |-> IdleCommand]
    /\ handshake' = FALSE
    /\ exitCode' = NoExit
    /\ UNCHANGED <<defaultPersonality, errorCall, panelAccounts, clock, userCacheFile, aiFile, uploadFile, ctx,
                   started, toggles, flushes>>

\* The callback of the 24-hour interval (bot.js:1769-1774); the interval is
\* set once the handshake of the start has succeeded.
BackupTimer ==
    /\ process = "running"
    /\ ~handshake
    /\ flushes < MaxFlushes
    /\ flushes' = flushes + 1
    /\ memFile' = saveConversationHistory(conversationHistory)
    /\ userCacheFile' = saveUserCache(userCache)
    /\ uploadFile' = saveUploadStatus(uploadEnabled)
    /\ UNCHANGED <<defaultPersonality, errorCall, panelAccounts, clock, commands, handshake, exitCode, process, boots, toggles, corrupted,
                   aiEnabled, uploadEnabled, conversationHistory, userCache,
                   aiFile, savePending, handlers, relays, ctx, started>>

\* gracefulShutdown up to its await (bot.js:1725-1730), on SIGINT or SIGTERM.
GracefulShutdown ==
    /\ process = "running"
    /\ flushes < MaxFlushes
    /\ flushes' = flushes + 1
    /\ process' = "stopping"
    /\ memFile' = saveConversationHistory(conversationHistory)
    /\ userCacheFile' = saveUserCache(userCache)
    /\ uploadFile' = saveUploadStatus(uploadEnabled)
    /\ UNCHANGED <<defaultPersonality, errorCall, panelAccounts, clock, commands, handshake, exitCode, boots, toggles, corrupted, aiEnabled,
                   uploadEnabled, conversationHistory, userCache, aiFile,
                   savePending, handlers, relays, ctx, started>>

\* notifyAdmin has settled and process.exit(0) runs (bot.js:1731): what the
\* handlers were doing and the queued save are gone; the stores keep the
\* values the process had.
ProcessExit ==
    /\ process = "stopping"
    /\ process' = "exited"
    /\ exitCode' = 0
    /\ handshake' = FALSE
    /\ savePending' = FALSE
    /\ handlers' = [h \in 1..NumHandlers |-> IdleHandler]
    /\ relays' = [r \in 1..NumRelays |-> IdleRelay]
    /\ commands' = [k \in 1..NumCommands |-> IdleCommand]
    /\ UNCHANGED <<defaultPersonality, errorCall, panelAccounts, clock, boots, toggles, flushes, corrupted,
                   aiEnabled, uploadEnabled, conversationHistory, userCache,
                   memFile, userCacheFile, aiFile, uploadFile, ctx, started>>

\* The process ends without running gracefulShutdown: process.exit(1) of a
\* failed start (bot.js:1776-1779), an uncaught error, a kill.
Kill ==
    /\ Alive
    /\ process' = "killed"
    /\ exitCode' = 1
    /\ handshake' = FALSE
    /\ savePending' = FALSE
    /\ handlers' = [h \in 1..NumHandlers |-> IdleHandler]
    /\ relays' = [r \in 1..NumRelays |-> IdleRelay]
    /\ commands' = [k \in 1..NumCommands |-> IdleCommand]
    /\ UNCHANGED <<defaultPersonality, errorCall, panelAccounts, clock, boots, toggles, flushes, corrupted,
                   aiEnabled, uploadEnabled, conversationHistory, userCache,
                   memFile, userCacheFile, aiFile, uploadFile, ctx, started>>

\* A store directory before the first start of the process: the stores have
\* the initial values of their declarations and nothing has run.
NotStarted ==
    /\ process = "off"
    /\ boots = 0
    /\ toggles = <<>>
    /\ flushes = 0
    /\ corrupted = 0
    /\ aiEnabled = true
    /\ uploadEnabled = true
    /\ userCache = {}
    /\ conversationHistory = <<>>
    /\ savePending = FALSE
    /\ handshake = FALSE
    /\ errorCall = NoErrorCall
    /\ panelAccounts = NoFile
    /\ clock = 0
    /\ exitCode = NoExit
    /\ NoInvocation
    /\ ctx = NoCtx

-----------------------------------------------------------------------------
\* The feature flags over restarts: the toggle buttons, the flushes and the
\* start of the process on the flag files it may find.

\* The values of the field of a flag file: a boolean, or none.
FlagValues == {true, false, Undefined}

AIStatusFiles ==
    {NoFile, Garbled([aiEnabled |-> Undefined])}
    \cup {File([aiEnabled |-> v]) : v \in FlagValues}

UploadStatusFiles ==
    {NoFile, Garbled([uploadEnabled |-> Undefined])}
    \cup {File([uploadEnabled |-> v]) : v \in FlagValues}

InitFlags ==
    /\ defaultPersonality = "friendly"
    /\ NotStarted
    /\ memFile = NoFile
    /\ userCacheFile = NoFile
    /\ aiFile \in AIStatusFiles
    /\ uploadFile \in UploadStatusFiles

NextFlags ==
    \/ Boot
    \/ \E chatId \in Chats, answered \in BOOLEAN :
           CallbackQuery("toggle_ai", chatId, answered)
    \/ \E chatId \in Chats, answered \in BOOLEAN :
           CallbackQuery("toggle_upload", chatId, answered)
    \/ BackupTimer
    \/ GracefulShutdown
    \/ ProcessExit
    \/ Kill

SpecFlags == InitFlags /\ [][NextFlags]_vars

-----------------------------------------------------------------------------
\* The conversation store and the user cache over restarts: the process is
\* started on the files it may find, serves free-text messages, and ends.

\* Messages of a store file: one written by an earlier process, one without
\* a timestamp, one without a content.
OldMessage == [role |-> "user", content |-> "hello", timestamp |-> "<t1>"]
UnstampedMessage == [role |-> "assistant", content |-> "fine", timestamp |-> Undefined]
NoContentMessage == [role |-> "assistant", content |-> Undefined, timestamp |-> "<t1>"]

\* The parsed documents of otak.json: objects from chat ids to lists, among
\* them lists with a null in the place of a message.
MemoryDocuments ==
    {<<>>,
     (1 :> <<OldMessage, UnstampedMessage>>),
     (1 :> <<OldMessage, NoContentMessage>>),
     (1 :> <<OldMessage>> @@ 2 :> <<NullEntry>>),
     (1 :> <<NullEntry>> @@ 2 :> <<OldMessage>>)}

MemoryFiles == {NoFile, Garbled(<<>>)} \cup {File(d) : d \in MemoryDocuments}

\* user_cache.json: missing, not JSON, or an array of user ids, which may
\* name a user of an earlier run.
UserCacheFiles == {NoFile, Garbled({}), File({}), File({NumUsers + 1})}

InitStore ==
    /\ defaultPersonality = "friendly"
    /\ NotStarted
    /\ memFile \in MemoryFiles
    /\ userCacheFile \in UserCacheFiles
    /\ aiFile = NoFile
    /\ uploadFile = NoFile

NextStore ==
    \/ Boot
    \/ \E h \in 1..NumHandlers, chatId \in Chats, userId \in Users, text \in Texts :
           MessageArrives(h, chatId, userId, text)
    \/ \E h \in 1..NumHandlers : AdminNotified(h)
    \/ \E h \in 1..NumHandlers, ok \in BOOLEAN : ChatActionSettles(h, ok)
    \/ \E h \in 1..NumHandlers, resp \in AIResponses : AIResponds(h, resp)
    \/ \E h \in 1..NumHandlers, ok \in BOOLEAN : ReplySettles(h, ok)
    \/ SaveImmediate
    \/ GracefulShutdown
    \/ ProcessExit
    \/ Kill

SpecStore == InitStore /\ [][NextStore]_vars

-----------------------------------------------------------------------------
\* The conversation: message handlers, control-panel callbacks and /clear,
\* interleaved at their awaits.

AICallbackData ==
    {"reset_conversation", "set_personality_formal", "set_personality_nokey"}

InitAI ==
    /\ defaultPersonality \in ConfigChoices
    /\ StoresFresh
    /\ NoInvocation
    /\ conversationHistory = <<>>
    /\ ctx = NoCtx

NextAI ==
    \/ \E h \in 1..NumHandlers, chatId \in Chats, userId \in Users, text \in Texts :
           MessageArrives(h, chatId, userId, text)
    \/ \E h \in 1..NumHandlers : AdminNotified(h)
    \/ \E h \in 1..NumHandlers, ok \in BOOLEAN : ChatActionSettles(h, ok)
    \/ \E h \in 1..NumHandlers, resp \in AIResponses : AIResponds(h, resp)
    \/ \E h \in 1..NumHandlers, ok \in BOOLEAN : ReplySettles(h, ok)
    \/ SaveImmediate
    \/ \E data \in AICallbackData, chatId \in Chats, answered \in BOOLEAN :
           CallbackQuery(data, chatId, answered)
    \/ \E chatId \in Chats : ClearCommand(chatId)

SpecAI == InitAI /\ [][NextAI]_vars

\* The conversation with the AI switch: message handlers interleaved with the
\* toggle_ai button.
InitAIToggle ==
    /\ defaultPersonality = "friendly"
    /\ StoresFresh
    /\ NoInvocation
    /\ conversationHistory = <<>>
    /\ ctx = NoCtx

NextAIToggle ==
    \/ \E h \in 1..NumHandlers, chatId \in Chats, userId \in Users, text \in Texts :
           MessageArrives(h, chatId, userId, text)
    \/ \E h \in 1..NumHandlers : AdminNotified(h)
    \/ \E h \in 1..NumHandlers, ok \in BOOLEAN : ChatActionSettles(h, ok)
    \/ \E h \in 1..NumHandlers, resp \in AIResponses : AIResponds(h, resp)
    \/ \E h \in 1..NumHandlers, ok \in BOOLEAN : ReplySettles(h, ok)
    \/ SaveImmediate
    \/ \E chatId \in Chats, answered \in BOOLEAN :
           CallbackQuery("toggle_ai", chatId, answered)

SpecAIToggle == InitAIToggle /\ [][NextAIToggle]_vars

-----------------------------------------------------------------------------
\* uploadToCatbox (bot.js:74-108)

LinkPrefix == "https://files.catbox.moe/"

\* String.prototype.startsWith
startsWith(s, prefix) ==
    Len(s) >= Len(prefix) /\ SubSeq(s, 1, Len(prefix)) = prefix

IsSpace(ch) == ch \in {" ", "\n", "\t", "\r"}

\* String.prototype.trim
RECURSIVE trim(_)
trim(s) ==
    IF s = "" THEN s
    ELSE IF IsSpace(SubSeq(s, 1, 1)) THEN trim(SubSeq(s, 2, Len(s)))
    ELSE IF IsSpace(SubSeq(s, Len(s), Len(s))) THEN trim(SubSeq(s, 1, Len(s) - 1))
    ELSE s

\* What axios.post settles with (bot.js:83-88): a rejection for a network
\* error or timeout and for a non-2xx status, or a 2xx response whose data is
\* the body text, or the value parsed from it when the body is JSON (an
\* object, null).  text is the body as the host sent it.
HostResponses ==
    {[kind |-> "neterr", type |-> "none", text |-> ""],
     [kind |-> "non2xx", type |-> "string", text |-> "No files given."],
     [kind |-> "ok", type |-> "string", text |-> ""],
     [kind |-> "ok", type |-> "string", text |-> "https://files.catbox.moe/ab12cd.jpg"],
     [kind |-> "ok", type |-> "string", text |-> "https://files.catbox.moe/ab12cd.jpg\n"],
     [kind |-> "ok", type |-> "string", text |-> "http://files.catbox.moe/ab12cd.jpg"],
     [kind |-> "ok", type |-> "string", text |-> "Upload failed, try again"],
     [kind |-> "ok", type |-> "object", text |-> "{\"error\":\"file too large\"}"],
     [kind |-> "ok", type |-> "null", text |-> "null"]}

\* error.message of the rejections and of the TypeError thrown by calling
\* startsWith on a value that is not a string.
NetworkErrorMessage == "timeout of 30000ms exceeded"
StatusErrorMessage == "Request failed with status code 412"
NotAFunctionMessage == "response.data.startsWith is not a function"
UploadFailedMessage == "Upload gagal"

Failure(error) == [success |-> FALSE, url |-> "", error |-> error]

\* The result object uploadToCatbox returns for what axios.post settled with.
uploadToCatbox(host) ==
    IF host.kind = "neterr" THEN Failure(NetworkErrorMessage)
    ELSE IF host.kind = "non2xx" THEN Failure(StatusErrorMessage)
    ELSE IF host.type = "null" \/ (host.type = "string" /\ host.text = "")
         THEN Failure(UploadFailedMessage)
    ELSE IF host.type # "string" THEN Failure(NotAFunctionMessage)
    ELSE IF startsWith(host.text, LinkPrefix)
         THEN [success |-> TRUE, url |-> trim(host.text), error |-> ""]
    ELSE Failure(host.text)

-----------------------------------------------------------------------------
\* The media handlers bot.on('photo' | 'video' | 'document' | 'audio' |
\* 'voice') (bot.js:482-760).

MediaKinds == {"photo", "video", "document", "audio", "voice"}

\* The limit of the size checks (bot.js:553, 611, 669).
MaxUploadBytes == 200 * 1024 * 1024

FileSizes == {1024, MaxUploadBytes - 1, MaxUploadBytes, MaxUploadBytes + 1,
              210 * 1024 * 1024}

\* The size check with ">=" in place of ">".
tooLargeInclusive(kind, size) ==
    kind \in {"video", "document", "audio"} /\ size >= MaxUploadBytes

\* The size check: video, document and audio have one, photo and voice none.
tooLarge(kind, size) ==
    kind \in {"video", "document", "audio"} /\ size > MaxUploadBytes

\* The handler without the check of the flag.
MediaArrivesUnchecked(r, kind, chatId, size) ==
    /\ Alive
    /\ relays[r].pc = "idle"
    /\ \A q \in 1..(r - 1) : relays[q].pc # "idle"
    /\ relays' = [relays EXCEPT ![r] =
           [IdleRelay EXCEPT !.pc = "typing", !.kind = kind,
                             !.chatId = chatId, !.size = size]]
    /\ UNCHANGED <<defaultPersonality, errorCall, panelAccounts, clock, commands, handshake, exitCode, process, boots, toggles, flushes, corrupted, aiEnabled, uploadEnabled,
                   conversationHistory, userCache, memFile, userCacheFile,
                   aiFile, uploadFile, savePending, handlers, ctx, started>>

\* bot.js:482-494 (and the same lines of the other kinds, bot.js:536-548,
\* 594-606, 652-664, 710-722): with upload disabled the handler returns at
\* once, and the slot r keeps the kind of the message it ignored; otherwise
\* the handler awaits sendChatAction.
MediaArrives(r, kind, chatId, size) ==
    /\ Alive
    /\ relays[r].pc = "idle"
    /\ \A q \in 1..(r - 1) : relays[q].pc # "idle"
    /\ IF ~Truthy(uploadEnabled)
       THEN relays' = [relays EXCEPT ![r] =
                [IdleRelay EXCEPT !.ignored = TRUE, !.kind = kind]]
       ELSE relays' = [relays EXCEPT ![r] =
                [IdleRelay EXCEPT !.pc = "typing", !.kind = kind,
                                  !.chatId = chatId, !.size = size]]
    /\ UNCHANGED <<defaultPersonality, errorCall, panelAccounts, clock, commands, handshake, exitCode, process, boots, toggles, flushes, corrupted, aiEnabled, uploadEnabled,
                   conversationHistory, userCache, memFile, userCacheFile,
                   aiFile, uploadFile, savePending, handlers, ctx, started>>

\* What the two awaits of downloadFileFromTelegram settle with (bot.js:112,
\* 115): the file arrives, bot.getFile is rejected, or the axios.get of the
\* file is rejected or times out.
GetFileErrorMessage == "ETELEGRAM: 400 Bad Request: file is too big"
DownloadOutcomes ==
    {[kind |-> "ok", message |-> ""],
     [kind |-> "getFile", message |-> GetFileErrorMessage],
     [kind |-> "neterr", message |-> NetworkErrorMessage]}

\* The result object of downloadFileFromTelegram (bot.js:120-130).
downloadFileFromTelegram(outcome) ==
    IF outcome.kind = "ok"
    THEN [success |-> TRUE, error |-> ""]
    ELSE [success |-> FALSE, error |-> outcome.message]

\* The word for the kind of file in the replies of the five handlers
\* (bot.js:502, 560, 618, 676, 729).
MediaNoun ==
    [photo |-> "foto", video |-> "video", document |-> "file",
     audio |-> "audio", voice |-> "voice note"]

\* `Gagal mengunduh <noun>: ${downloadResult.error}` (the leading mark is
\* left out).
downloadFailedReply(kind, error) ==
    "Gagal mengunduh " \o MediaNoun[kind] \o ": " \o error

\* bot.js:548-558: sendChatAction settles.  A rejection is caught and handed
\* to handleError, which notifies the operator (bot.js:461) and sends the
\* apology; the slot keeps the count of that call.  Otherwise a file over the limit is answered with the
\* too-large text (the send is returned), and any other file is downloaded.
MediaChatActionSettles(r, ok) ==
    /\ relays[r].pc = "typing"
    /\ IF ~ok
       THEN relays' = [relays EXCEPT ![r] = [IdleRelay EXCEPT !.handled = 1]]
       ELSE IF tooLarge(relays[r].kind, relays[r].size)
       THEN relays' = [relays EXCEPT ![r] =
                [@ EXCEPT !.pc = "reply", !.reply = "too large"]]
       ELSE relays' = [relays EXCEPT ![r] =
                [@ EXCEPT !.pc = "download", !.downloads = @ + 1]]
    /\ UNCHANGED <<defaultPersonality, errorCall, panelAccounts, clock, commands, handshake, exitCode, process, boots, toggles, flushes, corrupted, aiEnabled, uploadEnabled,
                   conversationHistory, userCache, memFile, userCacheFile,
                   aiFile, uploadFile, savePending, handlers, ctx, started>>

\* The handler that goes on to the upload whatever the download gave.
DownloadSettlesUploadsAnyway(r, outcome) ==
    /\ relays[r].pc = "download"
    /\ relays' = [relays EXCEPT ![r] =
           [@ EXCEPT !.pc = "upload", !.uploads = @ + 1,
                     !.download = downloadFileFromTelegram(outcome)]]
    /\ UNCHANGED <<defaultPersonality, errorCall, panelAccounts, clock, commands, handshake, exitCode, process, boots, toggles, flushes, corrupted, aiEnabled, uploadEnabled,
                   conversationHistory, userCache, memFile, userCacheFile,
                   aiFile, uploadFile, savePending, handlers, ctx, started>>

\* bot.js:558-567: downloadFileFromTelegram settles (it catches its errors,
\* bot.js:110-132).  A failed download is answered with its error (the send
\* is returned); after a successful one the upload is started.
DownloadSettles(r, outcome) ==
    /\ relays[r].pc = "download"
    /\ LET downloadResult == downloadFileFromTelegram(outcome)
       IN  IF ~downloadResult.success
           THEN relays' = [relays EXCEPT ![r] =
                    [@ EXCEPT !.pc = "reply", !.download = downloadResult,
                              !.reply = downloadFailedReply(relays[r].kind,
                                                            downloadResult.error)]]
           ELSE relays' = [relays EXCEPT ![r] =
                    [@ EXCEPT !.pc = "upload", !.download = downloadResult,
                              !.uploads = @ + 1]]
    /\ UNCHANGED <<defaultPersonality, errorCall, panelAccounts, clock, commands, handshake, exitCode, process, boots, toggles, flushes, corrupted, aiEnabled, uploadEnabled,
                   conversationHistory, userCache, memFile, userCacheFile,
                   aiFile, uploadFile, savePending, handlers, ctx, started>>

\* bot.js:564-587: uploadToCatbox settles and the handler sends the link or
\* the error of the result.
UploadSettles(r, host) ==
    /\ relays[r].pc = "upload"
    /\ relays' = [relays EXCEPT ![r] =
           [@ EXCEPT !.pc = "reply", !.host = host,
                     !.result = uploadToCatbox(host),
                     !.reply = IF uploadToCatbox(host).success
                               THEN "uploaded" ELSE "upload failed"]]
    /\ UNCHANGED <<defaultPersonality, errorCall, panelAccounts, clock, commands, handshake, exitCode, process, boots, toggles, flushes, corrupted, aiEnabled, uploadEnabled,
                   conversationHistory, userCache, memFile, userCacheFile,
                   aiFile, uploadFile, savePending, handlers, ctx, started>>

\* The send of the reply settles and the handler returns.  The sends of the
\* upload's outcome are awaited inside the try block (bot.js:515, 529), so
\* their rejection is handed to handleError; the sends of the too-large text
\* and of the download error are returned without await (bot.js:502, 554),
\* so their rejection rejects the handler's own promise.
MediaReplySettles(r, ok) ==
    /\ relays[r].pc = "reply"
    /\ relays' = [relays EXCEPT ![r] =
           IF ~ok /\ relays[r].uploads > 0
           THEN [IdleRelay EXCEPT !.handled = 1]
           ELSE IdleRelay]
    /\ UNCHANGED <<defaultPersonality, errorCall, panelAccounts, clock, commands, handshake, exitCode, process, boots, toggles, flushes, corrupted, aiEnabled, uploadEnabled,
                   conversationHistory, userCache, memFile, userCacheFile,
                   aiFile, uploadFile, savePending, handlers, ctx, started>>

\* The media relay, interleaved with the toggle_upload button.
InitRelay ==
    /\ defaultPersonality = "friendly"
    /\ StoresFresh
    /\ NoInvocation
    /\ conversationHistory = <<>>
    /\ ctx = NoCtx

NextRelay ==
    \/ \E r \in 1..NumRelays, kind \in MediaKinds, chatId \in Chats, size \in FileSizes :
           MediaArrives(r, kind, chatId, size)
    \/ \E r \in 1..NumRelays, ok \in BOOLEAN : MediaChatActionSettles(r, ok)
    \/ \E r \in 1..NumRelays, outcome \in DownloadOutcomes : DownloadSettles(r, outcome)
    \/ \E r \in 1..NumRelays, host \in HostResponses : UploadSettles(r, host)
    \/ \E r \in 1..NumRelays, ok \in BOOLEAN : MediaReplySettles(r, ok)
    \/ \E chatId \in Chats, answered \in BOOLEAN :
           CallbackQuery("toggle_upload", chatId, answered)

SpecRelay == InitRelay /\ [][NextRelay]_vars

\* A text is a URL on the host's link domain: it begins with
\* https://files.catbox.moe/ and holds no blank (the line end the host may
\* add is not part of it).
IsHostUrl(text) ==
    /\ Len(trim(text)) > Len("https://files.catbox.moe/")
    /\ SubSeq(trim(text), 1, Len("https://files.catbox.moe/")) = "https://files.catbox.moe/"
    /\ \A i \in 1..Len(trim(text)) : ~IsSpace(SubSeq(trim(text), i, i))

\* C9 as claimed: an upload that the host answered is a success if and only
\* if the response is a URL on the host's link domain, and every other
\* response gives a failure whose error is the response text the host sent
\* (for an empty body, which has no text to carry, the fixed failure text).
C9_SuccessIffHostUrl ==
    \A r \in 1..NumRelays :
        (relays[r].pc = "reply" /\ relays[r].uploads = 1
         /\ relays[r].host.kind = "ok") =>
            /\ relays[r].result.success <=>
                   (relays[r].host.type = "string" /\ IsHostUrl(relays[r].host.text))
            /\ ~relays[r].result.success =>
                   \/ relays[r].result.error = relays[r].host.text
                   \/ relays[r].host.text = "" /\ relays[r].result.error = "Upload gagal"

\* C10: a video, audio or document whose file_size exceeds 200 MB is never
\* downloaded or uploaded and the reply the handler sends for it is the
\* too-large text; a file at or below the limit, and every photo and voice
\* note, is never answered with the too-large text and is downloaded once the
\* chat action has been sent.
C10_SizeLimit ==
    \A r \in 1..NumRelays :
        relays[r].pc # "idle" =>
            IF relays[r].kind \in {"video", "audio", "document"}
               /\ relays[r].size > 200 * 1024 * 1024
            THEN /\ relays[r].downloads = 0
                 /\ relays[r].uploads = 0
                 /\ relays[r].pc \in {"typing", "reply"}
                 /\ relays[r].pc = "reply" => relays[r].reply = "too large"
            ELSE /\ relays[r].reply # "too large"
                 /\ relays[r].pc # "typing" => relays[r].downloads = 1

\* A video of 210 MB has been answered with the too-large text.
C10_Witness ==
    \E r \in 1..NumRelays :
        /\ relays[r].pc = "reply"
        /\ relays[r].kind = "video"
        /\ relays[r].size = 210 * 1024 * 1024
        /\ relays[r].reply = "too large"
        /\ relays[r].downloads = 0

-----------------------------------------------------------------------------
\* Properties of the AI proxy.

\* The calls of getAIResponse that have returned: the handler awaits the send
\* of the returned text.
Returned(h) == handlers[h].pc = "reply" /\ handlers[h].outcome \in {"success", "failure"}

\* The system message expected in front of a new history: present if and
\* only if a default personality is configured and names a known personality.
ExpectedSeed ==
    IF defaultPersonality = "friendly"
    THEN <<[role |-> "system", content |-> "be friendly", timestamp |-> "<now>"]>>
    ELSE IF defaultPersonality = "formal"
    THEN <<[role |-> "system", content |-> "be formal", timestamp |-> "<now>"]>>
    ELSE <<>>

C4_EveryFailureRollsBack ==
    \A h \in 1..NumHandlers :
        (handlers[h].pc = "reply"
         /\ handlers[h].resp \in {"neterr", "non2xx", "nullbody", "noresult"}) =>
            /\ handlers[h].outcome = "failure"
            /\ handlers[h].ret = ApiFailureMessage

\* The user messages of a list that no assistant message answers.
RECURSIVE CountRole(_, _)
CountRole(list, role) ==
    IF list = <<>> THEN 0
    ELSE (IF Head(list).role = role THEN 1 ELSE 0) + CountRole(Tail(list), role)

Unanswered(list) == Max(CountRole(list, "user") - CountRole(list, "assistant"), 0)

InFlight(c) ==
    \E h \in 1..NumHandlers : handlers[h].pc = "await_ai" /\ handlers[h].chatId = c

\* C5 as claimed: a chat's history holds at most one unanswered user message,
\* and none when no completion call of the chat is in flight.
C5_AtMostOneDangling ==
    \A c \in DOMAIN conversationHistory :
        /\ Unanswered(conversationHistory[c]) <= 1
        /\ ~InFlight(c) => Unanswered(conversationHistory[c]) = 0

\* C6: while aiEnabled is false a call of getAIResponse returns the disabled
\* notice, issues no request and leaves the conversation history, the set of
\* known chats included, and its store as they are; so does the message
\* handler that finds AI disabled on arrival.
C6_DisabledCallChangesNothing ==
    [][aiEnabled = false =>
          /\ \A h \in 1..NumHandlers :
                 (handlers[h].pc = "typing" /\ handlers'[h].pc \notin {"typing", "idle"}) =>
                     /\ handlers'[h].ret = AiDisabledMessage
                     /\ handlers'[h].pc = "reply"
                     /\ handlers'[h].reqs = 0
                     /\ conversationHistory' = conversationHistory
                     /\ memFile' = memFile
                     /\ savePending' = savePending
          /\ started' # started =>
                 /\ handlers' = handlers
                 /\ conversationHistory' = conversationHistory
      ]_vars

\* A call of getAIResponse that found AI disabled.
C6_Witness ==
    \E h \in 1..NumHandlers :
        /\ handlers[h].pc = "reply"
        /\ handlers[h].outcome = "disabled"
        /\ aiEnabled = false

\* C7: the first call of a chat without history leaves [system?, user] when
\* the request is issued, and a successful return that finds this list leaves
\* [system?, user, assistant]; the system message is there if and only if a
\* default personality is configured and is a known one.
C7_FirstTurn ==
    [][\A h \in 1..NumHandlers :
          LET c == handlers[h].chatId
              user == [role |-> "user", content |-> handlers[h].text, timestamp |-> "<now>"]
          IN  /\ (handlers[h].pc = "typing" /\ handlers'[h].pc = "await_ai"
                  /\ c \notin DOMAIN conversationHistory) =>
                     conversationHistory'[c] = ExpectedSeed \o <<user>>
              /\ (handlers[h].pc = "await_ai" /\ handlers'[h].pc = "reply"
                  /\ handlers'[h].resp \in {"noresult", "result"}
                  /\ handlers[h].fresh
                  /\ conversationHistory[c] = ExpectedSeed \o <<user>>) =>
                     conversationHistory'[c] =
                         ExpectedSeed \o <<user, [role |-> "assistant",
                                                  content |-> handlers'[h].ret,
                                                  timestamp |-> "<now>"]>>
      ]_vars

\* The first turn of a chat has succeeded and the history is
\* [system, user, assistant].
C7_Witness ==
    \E h \in 1..NumHandlers :
        /\ Returned(h)
        /\ handlers[h].outcome = "success"
        /\ handlers[h].fresh
        /\ defaultPersonality = "friendly"
        /\ conversationHistory[handlers[h].chatId] =
               <<[role |-> "system", content |-> "be friendly", timestamp |-> "<now>"],
                 [role |-> "user", content |-> handlers[h].text, timestamp |-> "<now>"],
                 [role |-> "assistant", content |-> handlers[h].ret, timestamp |-> "<now>"]>>

\* C8: an invocation made with AI enabled has issued exactly one request
\* while it waits for the response and after it has returned, whether it
\* failed or succeeded.
C8_OneRequest ==
    \A h \in 1..NumHandlers :
        (handlers[h].pc = "await_ai" \/ Returned(h)) => handlers[h].reqs = 1

\* A failed call that has returned.
C8_Witness ==
    \E h \in 1..NumHandlers :
        /\ Returned(h)
        /\ handlers[h].outcome = "failure"
        /\ handlers[h].reqs = 1

-----------------------------------------------------------------------------
\* Properties of the upload gate, the feature flags and the flushes.

\* C11: a photo, video, audio, document or voice message that arrives while
\* uploadEnabled is false leaves its handler idle, with no download, no
\* upload and no reply; a handler leaves the idle state, and downloads or
\* uploads are counted, only in an invocation that found the flag true when
\* it began.
C11_UploadGate ==
    [][\A r \in 1..NumRelays :
          /\ (relays[r].pc = "idle" /\ relays'[r].pc # "idle") =>
                 uploadEnabled = true
          /\ (relays[r].pc = "idle" /\ uploadEnabled # true) =>
                 /\ relays'[r].pc = "idle"
                 /\ relays'[r].downloads = 0
                 /\ relays'[r].uploads = 0
                 /\ relays'[r].reply = ""
          /\ relays'[r].ignored => relays'[r].pc = "idle"
      ]_vars

\* A voice message was ignored because upload is disabled.
C11_Witness ==
    \E r \in 1..NumRelays :
        /\ relays[r].ignored
        /\ relays[r].kind = "voice"
        /\ relays[r].pc = "idle"
        /\ relays[r].downloads = 0
        /\ uploadEnabled = false

\* The toggle callback that has just been handled was for this flag.
Toggled(flag) ==
    /\ toggles' # toggles
    /\ toggles'[Len(toggles')].flag = flag

\* C12: after a toggle callback the flag file, loaded by a process that
\* starts with the default, gives the negation of the value the flag had;
\* negating the new boolean again gives the value it had; and a process that
\* is started after an earlier one ended loads, for each flag, the value the
\* flag had in the earlier process.
C12_ToggleThenReload ==
    [][/\ Toggled("ai") =>
              /\ loadAIStatus(aiFile', true) = Not(aiEnabled)
              /\ aiEnabled \in {true, false} => Not(aiEnabled') = aiEnabled
       /\ Toggled("upload") =>
              /\ loadUploadStatus(uploadFile', true) = Not(uploadEnabled)
              /\ uploadEnabled \in {true, false} => Not(uploadEnabled') = uploadEnabled
       /\ (process \in {"exited", "killed"} /\ process' = "running") =>
              /\ aiEnabled' = aiEnabled
              /\ uploadEnabled' = uploadEnabled
      ]_vars

\* The AI flag was switched off in the first process and the second process
\* has loaded it as false.
C12_Witness ==
    /\ process = "running"
    /\ boots = 2
    /\ toggles = <<[flag |-> "ai", boot |-> 1]>>
    /\ aiEnabled = false

\* A flag file holds a well-formed record: an object with the boolean field.
WellFormedFlag(file, value) ==
    file.exists /\ file.parses /\ value \in {true, false}

\* C13 as claimed: the start of the process leaves each flag true if its
\* file is missing, equal to the stored boolean if the record is well-formed,
\* and true if the record is malformed (not JSON, or JSON without the boolean
\* field); the flag is a boolean afterwards.
C13_FlagAfterBoot ==
    [][boots' # boots =>
          /\ aiEnabled' = IF WellFormedFlag(aiFile, aiFile.data.aiEnabled)
                          THEN aiFile.data.aiEnabled ELSE true
          /\ uploadEnabled' = IF WellFormedFlag(uploadFile, uploadFile.data.uploadEnabled)
                              THEN uploadFile.data.uploadEnabled ELSE true
          /\ aiEnabled' \in {true, false}
          /\ uploadEnabled' \in {true, false}
      ]_vars

\* Each flag file that holds a JSON object holds the value of its flag.
FlagStoresAgree ==
    /\ (aiFile.exists /\ aiFile.parses) => aiFile.data.aiEnabled = aiEnabled
    /\ (uploadFile.exists /\ uploadFile.parses) =>
           uploadFile.data.uploadEnabled = uploadEnabled

\* C14: the step of a toggle_ai callback negates aiEnabled, leaves
\* uploadEnabled and its file alone and writes the new value to the AI flag
\* file in that step; toggle_upload does the same for the other flag; and in
\* every state a live process returns to the event loop in, each flag file
\* that holds a record holds the value of its flag in memory.
C14_FlipAndPersist ==
    [][/\ Toggled("ai") =>
              /\ aiEnabled' # aiEnabled
              /\ aiEnabled' = (IF aiEnabled \in {Undefined, Null, false, ""}
                               THEN true ELSE false)
              /\ aiFile' = [exists |-> TRUE, parses |-> TRUE,
                            data |-> [aiEnabled |-> aiEnabled']]
              /\ uploadEnabled' = uploadEnabled
              /\ uploadFile' = uploadFile
       /\ Toggled("upload") =>
              /\ uploadEnabled' # uploadEnabled
              /\ uploadEnabled' = (IF uploadEnabled \in {Undefined, Null, false, ""}
                                   THEN true ELSE false)
              /\ uploadFile' = [exists |-> TRUE, parses |-> TRUE,
                                data |-> [uploadEnabled |-> uploadEnabled']]
              /\ aiEnabled' = aiEnabled
              /\ aiFile' = aiFile
       /\ process' \in {"running", "stopping"} => FlagStoresAgree'
      ]_vars

\* Both buttons were pressed in one process, and both files hold the new
\* values.
C14_Witness ==
    /\ process = "running"
    /\ toggles = <<[flag |-> "ai", boot |-> 1], [flag |-> "upload", boot |-> 1]>>
    /\ aiEnabled = false
    /\ uploadEnabled = false
    /\ aiFile.exists /\ aiFile.data.aiEnabled = false
    /\ uploadFile.exists /\ uploadFile.data.uploadEnabled = false

\* C20 as claimed: a full flush, on shutdown or by the timer, writes the
\* conversation store, the user-cache store and both flag stores.
C20_FlushWritesAllStores ==
    [][flushes' # flushes =>
          /\ memFile'.exists /\ memFile'.parses
          /\ userCacheFile'.exists /\ userCacheFile'.parses
          /\ uploadFile'.exists /\ uploadFile'.parses
          /\ uploadFile'.data.uploadEnabled = uploadEnabled
          /\ aiFile'.exists /\ aiFile'.parses
          /\ aiFile'.data.aiEnabled = aiEnabled
      ]_vars
-----------------------------------------------------------------------------
\* Properties of the conversation store and the user cache.

\* saveConversationHistory followed by loadConversationHistory in a fresh
\* process.
RoundTrip(hist) == loadConversationHistory(saveConversationHistory(hist))

\* The {role, content} pairs of a history, chat by chat.
Pairs(hist) ==
    [c \in DOMAIN hist |->
        [i \in 1..Len(hist[c]) |->
            [role |-> hist[c][i].role, content |-> hist[c][i].content]]]

\* A message has a role and a content.
HasBoth(msg) ==
    /\ msg.role \notin {Undefined, Null, ""}
    /\ msg.content \notin {Undefined, Null, ""}

\* C15 as claimed: for every history in memory, saving and loading it in a
\* fresh process gives, per chat, the same sequence of {role, content} pairs.
C15_RoundTripReproducesHistory ==
    Alive =>
        /\ ~RoundTrip(conversationHistory).threw
        /\ Pairs(RoundTrip(conversationHistory).history) = Pairs(conversationHistory)

AllHaveBoth(doc) ==
    \A c \in DOMAIN doc : \A i \in 1..Len(doc[c]) : HasBoth(doc[c][i])

\* C16: a step that writes the conversation store writes, for each chat in
\* memory, the messages of its list that have a role and a content and no
\* others; a start of the process puts in memory only messages that have
\* both, and for a chat it loads, all of the file's messages that have both.
C16_OnlyWellFormedMessages ==
    [][/\ (memFile' # memFile /\ memFile'.exists) =>
              /\ memFile'.parses
              /\ AllHaveBoth(memFile'.data)
              /\ DOMAIN memFile'.data = DOMAIN conversationHistory'
              /\ \A c \in DOMAIN conversationHistory' :
                     memFile'.data[c] = SelectSeq(conversationHistory'[c], HasBoth)
       /\ boots' # boots =>
              /\ AllHaveBoth(conversationHistory')
              /\ \A c \in DOMAIN conversationHistory' :
                     Pairs(conversationHistory')[c] =
                         Pairs([d \in {c} |-> SelectSeq(memFile.data[c], HasBoth)])[c]
      ]_vars

\* The store was written while the history in memory holds a message without
\* content, and the file holds the chat without that message.
C16_Witness ==
    /\ memFile.exists
    /\ \E c \in DOMAIN conversationHistory :
           /\ c \in DOMAIN memFile.data
           /\ \E i \in 1..Len(conversationHistory[c]) :
                  conversationHistory[c][i].content = Undefined
           /\ memFile.data[c] = SelectSeq(conversationHistory[c], HasBoth)
           /\ Len(memFile.data[c]) = Len(conversationHistory[c]) - 1

\* The store file cannot be parsed, or an entry of it is not a list of
\* message objects.
CorruptedStore(file) ==
    /\ file.exists
    /\ \/ ~file.parses
       \/ \E c \in DOMAIN file.data :
              \E i \in 1..Len(file.data[c]) : file.data[c][i] = NullEntry

\* C17 as claimed: a start of the process on a corrupted conversation store
\* renames the file and leaves the history in memory empty.
C17_CorruptedStoreIsQuarantined ==
    [][(boots' # boots /\ CorruptedStore(memFile)) =>
          /\ memFile' = NoFile
          /\ corrupted' = corrupted + 1
          /\ conversationHistory' = <<>>
      ]_vars

\* C18: no step of a running process removes a user id from the cache, and a
\* step that writes the user-cache store writes the whole set in memory.
C18_UserCacheGrows ==
    [][/\ boots' = boots => userCache \subseteq userCache'
       /\ userCacheFile' # userCacheFile =>
              userCacheFile' = [exists |-> TRUE, parses |-> TRUE, data |-> userCache']
      ]_vars

\* The cache was loaded with a user of an earlier run, a new user wrote, and
\* the store holds both.
C18_Witness ==
    /\ Alive
    /\ userCache = Users \cup {NumUsers + 1}
    /\ userCacheFile.exists
    /\ userCacheFile.parses
    /\ userCacheFile.data = userCache

\* No handler is between two of its awaits and no save is queued.
Quiescent ==
    /\ Alive
    /\ ~savePending
    /\ \A h \in 1..NumHandlers : handlers[h].pc = "idle"
    /\ \A r \in 1..NumRelays : relays[r].pc = "idle"

NonEmptyChats(hist) == {c \in DOMAIN hist : hist[c] # <<>>}

\* C19 as claimed: whenever no handler is running and no save is queued, the
\* conversation store holds the history in memory without its malformed
\* entries (a missing file standing for no chats, and chats with an empty
\* list not counted), the user-cache store holds the cache, and each flag
\* store that exists holds its flag.
C19_FilesEqualStores ==
    Quiescent =>
        /\ LET mem == validData(conversationHistory)
               disk == IF memFile.exists THEN memFile.data ELSE <<>>
           IN  /\ NonEmptyChats(mem) = NonEmptyChats(disk)
               /\ \A c \in NonEmptyChats(mem) : mem[c] = disk[c]
        /\ IF userCacheFile.exists THEN userCacheFile.data = userCache
           ELSE userCache = {}
        /\ aiFile.exists => aiFile.data.aiEnabled = aiEnabled
        /\ uploadFile.exists => uploadFile.data.uploadEnabled = uploadEnabled

-----------------------------------------------------------------------------
\* Properties of the turns that interleave with each other and with resets.

\* C26 as claimed: under any interleaving of handlers of one chat, the
\* rollback of a failed completion call removes the user message that the
\* call appended, and nothing else: the entry it removes is the last of the
\* list, it is a user message with the text of the call, and no other chat
\* changes.
C26_RollbackRemovesOwnUserMessage ==
    [][\A h \in 1..NumHandlers :
          LET c == handlers[h].chatId
          IN  (handlers[h].pc = "await_ai" /\ handlers'[h].pc = "reply"
               /\ handlers'[h].outcome = "failure") =>
                  /\ conversationHistory[c] # <<>>
                  /\ conversationHistory[c][Len(conversationHistory[c])]
                         = [role |-> "user", content |-> handlers[h].text,
                            timestamp |-> "<now>"]
                  /\ conversationHistory'[c] =
                         SubSeq(conversationHistory[c], 1,
                                Len(conversationHistory[c]) - 1)
                  /\ \A d \in DOMAIN conversationHistory \ {c} :
                         conversationHistory'[d] = conversationHistory[d]
      ]_vars

\* C28 as claimed: when a default personality is configured, every chat
\* history that holds at least one user or assistant message begins with a
\* system message, in every reachable state.
C28_HistoryBeginsWithSystem ==
    defaultPersonality \in {"friendly", "formal"} =>
        \A c \in DOMAIN conversationHistory :
            (CountRole(conversationHistory[c], "user")
                 + CountRole(conversationHistory[c], "assistant") > 0) =>
                conversationHistory[c][1].role = "system"

\* C25 as claimed: a call of the context selection ends without an error,
\* and for an absent or empty history it returns the empty sequence.
C25_SelectContextIsTotal ==
    ctx.called =>
        /\ ctx.result.status = "ok"
        /\ (ctx.chatId \notin DOMAIN conversationHistory
            \/ conversationHistory[ctx.chatId] = <<>>) =>
               ctx.result.messages = <<>>


-----------------------------------------------------------------------------
\* The personality buttons pressed on the stores of a running process.

\* The lists a chat can hold when a button is pressed: a system message is
\* only ever the first entry of a list.
SwitchLists ==
    {l \in SeqsUpTo({Message("system", Personalities.friendly),
                     Message("user", "hello"), Message("assistant", "fine")}, 2) :
        \A i \in 2..Len(l) : l[i].role # "system"}

\* Callback data are chosen by the sender of the callback query: the keys of
\* the menu (bot.js:1453-1457), a name that is no key, a name that objects
\* inherit, and the bare prefix.
SwitchCallbackData ==
    {"set_personality_formal", "set_personality_friendly",
     "set_personality_nokey", "set_personality_toString", "set_personality_"}

\* A running process whose store file holds the history, as after a save.
InitSwitch ==
    /\ defaultPersonality = "friendly"
    /\ process = "running"
    /\ boots = 1
    /\ toggles = <<>>
    /\ flushes = 0
    /\ corrupted = 0
    /\ aiEnabled = true
    /\ uploadEnabled = true
    /\ userCache = {}
    /\ userCacheFile = NoFile
    /\ aiFile = NoFile
    /\ uploadFile = NoFile
    /\ savePending = FALSE
    /\ handshake = FALSE
    /\ errorCall = NoErrorCall
    /\ panelAccounts = NoFile
    /\ clock = 0
    /\ exitCode = NoExit
    /\ NoInvocation
    /\ ctx = NoCtx
    /\ \E known \in SUBSET Chats : conversationHistory \in [known -> SwitchLists]
    /\ memFile = saveConversationHistory(conversationHistory)

NextSwitch ==
    \E data \in SwitchCallbackData, chatId \in Chats, answered \in BOOLEAN :
        CallbackQuery(data, chatId, answered)

SpecSwitch == InitSwitch /\ [][NextSwitch]_vars

\* C21 as claimed: a personality button with a configured key replaces the
\* chat's history with exactly one fresh system message that carries the
\* prompt of that personality and saves the store at once, and a callback
\* with any other key leaves the history and the store as they are.  So a
\* personality callback that changes the history leaves in one chat the
\* single system message of a configured personality, with the store file
\* rewritten from the new history, and one that does not change the history
\* does not change the file.
C21_SwitchSetsConfiguredPromptOrNothing ==
    [][IF conversationHistory' # conversationHistory
       THEN /\ \E c \in Chats, key \in {"friendly", "formal"} :
                   conversationHistory' =
                       [d \in DOMAIN conversationHistory \cup {c} |->
                           IF d = c
                           THEN <<[role |-> "system",
                                   content |-> Personalities[key],
                                   timestamp |-> "<now>"]>>
                           ELSE conversationHistory[d]]
            /\ memFile' = saveConversationHistory(conversationHistory')
       ELSE memFile' = memFile
      ]_vars


\* C27 as claimed: a reset is effective against the turns in flight: once a
\* chat was reset (/clear, reset_conversation or a personality switch), the
\* return of a completion call that was started before the reset neither
\* adds an assistant message to the chat's history nor removes a message
\* from it, so that return leaves the chat's list as it is.
C27_ResetDiscardsInFlightTurn ==
    [][\A h \in 1..NumHandlers :
          LET c == handlers[h].chatId
          IN  (handlers[h].pc = "await_ai" /\ handlers[h].resetSince
               /\ handlers'[h].pc = "reply") =>
                  conversationHistory'[c] = conversationHistory[c]
      ]_vars


-----------------------------------------------------------------------------
\* Properties of the failures of the media relay.

\* C29: in a media relay the upload to the host is attempted only after the
\* download from the platform has succeeded; a failed download is answered
\* with the error text that carries the message of the underlying error, is
\* followed by no upload, and is not tried again (one download per relay).
C29_UploadOnlyAfterDownload ==
    \A r \in 1..NumRelays :
        /\ relays[r].downloads <= 1
        /\ relays[r].uploads > 0 =>
               relays[r].download.success /\ relays[r].downloads = 1
        /\ (relays[r].downloads = 1 /\ relays[r].pc # "download"
            /\ ~relays[r].download.success) =>
               /\ relays[r].pc = "reply"
               /\ relays[r].uploads = 0
               /\ \E m \in {"timeout of 30000ms exceeded",
                            "ETELEGRAM: 400 Bad Request: file is too big"},
                     noun \in {"foto", "video", "file", "audio", "voice note"} :
                      /\ relays[r].download.error = m
                      /\ relays[r].reply = "Gagal mengunduh " \o noun \o ": " \o m

\* A relay whose download timed out awaits the send of the error text and
\* has started no upload.
C29_Witness ==
    \E r \in 1..NumRelays :
        /\ relays[r].pc = "reply"
        /\ relays[r].downloads = 1
        /\ ~relays[r].download.success
        /\ relays[r].download.error = "timeout of 30000ms exceeded"
        /\ relays[r].reply = "Gagal mengunduh foto: timeout of 30000ms exceeded"
        /\ relays[r].uploads = 0

\* C23 as claimed: every timeout or error of an outbound call gives a failure
\* message in the chat and a notification to the operator, for the media
\* download and upload as for the other calls: a relay whose download or
\* upload failed returns having sent a failure text and having notified the
\* operator.
C23_FailureNotifiesUserAndOperator ==
    [][\A r \in 1..NumRelays :
          (/\ relays[r].pc = "reply"
           /\ relays'[r].pc = "idle"
           /\ \/ relays[r].downloads = 1 /\ relays[r].uploads = 0
              \/ relays[r].uploads = 1 /\ ~relays[r].result.success) =>
              /\ relays[r].reply # ""
              /\ relays'[r].handled > 0
      ]_vars


-----------------------------------------------------------------------------
\* The command handlers (bot.js:798-1436) and the group handlers
\* (bot.js:1793-1835).

\* The commands that take an argument, and those of them whose registered
\* expression is /\/<name>\s*(.*)/ (bot.js:1424-1426); the others are
\* registered with /\/<name>(?: (.+))?/ (bot.js:1428-1436).
ArgCommands == {"pin", "ig", "yt", "play", "ssweb", "tiktok", "qr", "sc", "profil"}
RestCommands == {"pin", "ig", "yt"}

\* The first position at which pat occurs in text, 0 if there is none.
indexOf(text, pat) ==
    LET hits == {i \in 1..(Len(text) - Len(pat) + 1) :
                    SubSeq(text, i, i + Len(pat) - 1) = pat}
    IN  IF hits = {} THEN 0 ELSE Min(hits)

\* \s* consumes the white space in front of s.
RECURSIVE skipSpaces(_)
skipSpaces(s) ==
    IF Len(s) > 0 /\ IsSpace(SubSeq(s, 1, 1))
    THEN skipSpaces(SubSeq(s, 2, Len(s)))
    ELSE s

\* regexp.exec(text) succeeds: the expressions are not anchored.
matches(name, text) == indexOf(text, "/" \o name) > 0

\* match[1] for a text the expression of the command matches: what follows
\* the name and its white space, or, for the second form, what follows one
\* blank after the name if anything does, and undefined otherwise.
capture(name, text) ==
    LET rest == SubSeq(text, indexOf(text, "/" \o name) + Len(name) + 1, Len(text))
    IN  IF name \in RestCommands THEN skipSpaces(rest)
        ELSE IF Len(rest) >= 2 /\ SubSeq(rest, 1, 1) = " "
             THEN SubSeq(rest, 2, Len(rest))
        ELSE Undefined

\* The texts a command is sent with: bare, with a trailing blank, addressed
\* to the bot as the clients of a group chat send it, and with an argument.
BotUserName == "mybot"
CommandArguments == {"cats", "https://vt.tiktok.com/x"}
CommandTexts(name) ==
    {"/" \o name, "/" \o name \o " ", "/" \o name \o "@" \o BotUserName}
    \cup {"/" \o name \o " " \o a : a \in CommandArguments}

\* The checks of the argument that come after the check of its presence:
\* /ssweb wants a URL (bot.js:1079), /tiktok a link of the site (bot.js:1126).
acceptable(name, arg) ==
    IF name = "ssweb"
    THEN startsWith(arg, "http://") \/ startsWith(arg, "https://")
    ELSE IF name = "tiktok" THEN indexOf(arg, "tiktok.com") > 0
    ELSE TRUE

\* A handler of an argument-taking command from its dispatch to its first
\* await.  Without argument it returns the send of the usage hint; an
\* argument that fails the handler's check is answered the same way with
\* another text; /tiktok then awaits the send of a progress note outside its
\* try block (bot.js:1130); the others enter their try block and await
\* sendChatAction.  CommandCallback is what the callback does to its own
\* invocation.
CommandCallback(k, name, text, chatId) ==
    /\ commands[k].pc \in {"idle", "done"}
    /\ matches(name, text)
    /\ LET arg == capture(name, text)
           c == [IdleCommand EXCEPT !.name = name, !.text = text,
                                    !.chatId = chatId, !.arg = arg]
       IN  commands' = [commands EXCEPT ![k] =
               IF ~Truthy(arg) THEN [c EXCEPT !.pc = "returned_send", !.usage = 1]
               ELSE IF ~acceptable(name, arg) THEN [c EXCEPT !.pc = "returned_send"]
               ELSE IF name = "tiktok" THEN [c EXCEPT !.pc = "progress"]
               ELSE [c EXCEPT !.pc = "action"]]

CommandArrives(k, name, text, chatId) ==
    /\ Alive
    /\ CommandCallback(k, name, text, chatId)
    /\ UNCHANGED <<defaultPersonality, errorCall, panelAccounts, clock, handshake, exitCode, process, boots, toggles,
                   flushes, corrupted, aiEnabled, uploadEnabled,
                   conversationHistory, userCache, memFile, userCacheFile,
                   aiFile, uploadFile, savePending, handlers, relays, ctx,
                   started>>

\* What is left unchanged by the steps of a running command.
CommandFrame ==
    UNCHANGED <<defaultPersonality, errorCall, panelAccounts, clock, handshake, exitCode, process, boots, toggles,
                flushes, corrupted, aiEnabled, uploadEnabled,
                conversationHistory, userCache, memFile, userCacheFile,
                aiFile, uploadFile, savePending, handlers, relays, ctx,
                started>>

\* handleError is entered (bot.js:416-461): it logs and awaits notifyAdmin.
handleError(k) ==
    commands' = [commands EXCEPT ![k] =
        [@ EXCEPT !.pc = "notify", !.handled = @ + 1, !.notified = @ + 1]]

\* A send that the handler returned without awaiting it settles
\* (bot.js:890, 920, 1034, 1070, 1080, 1123, 1127, 1145, 1170, 1289, 1326,
\* 1362): the handler is over, and a rejection of the send is the rejection
\* of the handler's promise, which nothing catches.
ReturnedSendSettles(k, ok) ==
    /\ commands[k].pc = "returned_send"
    /\ commands' = [commands EXCEPT ![k] = [@ EXCEPT !.pc = "done", !.escaped = ~ok]]
    /\ CommandFrame

\* The progress note of /tiktok settles (bot.js:1130): it is awaited in front
\* of the try block, so a rejection ends the handler uncaught; otherwise the
\* vendor is called.
ProgressSettles(k, ok) ==
    /\ commands[k].pc = "progress"
    /\ commands' = [commands EXCEPT ![k] =
           IF ok THEN [@ EXCEPT !.pc = "vendor", !.vendorCalls = @ + 1]
           ELSE [@ EXCEPT !.pc = "done", !.escaped = TRUE]]
    /\ CommandFrame

\* sendChatAction settles (bot.js:898, 926, 963, 1038, 1090, 1293, 1330,
\* 1369): a rejection is caught; otherwise the vendor is called, except by
\* /qr, which sends the picture by its URL (bot.js:1296-1299).
CommandChatActionSettles(k, ok) ==
    /\ commands[k].pc = "action"
    /\ IF ~ok THEN handleError(k)
       ELSE commands' = [commands EXCEPT ![k] =
                IF commands[k].name = "qr" THEN [@ EXCEPT !.pc = "send"]
                ELSE [@ EXCEPT !.pc = "vendor", !.vendorCalls = @ + 1]]
    /\ CommandFrame

\* The call of the vendor settles: with a result or with none, which the
\* handler answers by an awaited send (/tiktok returns the send of its
\* not-found text, bot.js:1145, 1170), or with an error or a timeout, which
\* the catch block hands to handleError.  /ssweb writes the body of the
\* answer to a file of the temp directory before it sends it
\* (bot.js:1100-1101).
VendorOutcomes == {"result", "empty", "error"}
VendorSettles(k, outcome) ==
    /\ commands[k].pc = "vendor"
    /\ IF outcome = "error" THEN handleError(k)
       ELSE commands' = [commands EXCEPT ![k] =
                IF commands[k].name = "tiktok" /\ outcome = "empty"
                THEN [@ EXCEPT !.pc = "returned_send"]
                ELSE [@ EXCEPT !.pc = "send",
                               !.tempFile = (commands[k].name = "ssweb")]]
    /\ CommandFrame

\* The awaited send of the handler's answer settles; a rejection is caught.
\* After the send /ssweb removes its file (bot.js:1103-1114).
CommandSendSettles(k, ok) ==
    /\ commands[k].pc = "send"
    /\ IF ~ok THEN handleError(k)
       ELSE commands' = [commands EXCEPT ![k] = [@ EXCEPT !.pc = "done", !.tempFile = FALSE]]
    /\ CommandFrame

\* notifyAdmin settles (it swallows a rejection, bot.js:408-414) and
\* handleError awaits the send of the apology to the chat (bot.js:463-469).
ErrorNotified(k, ok) ==
    /\ commands[k].pc = "notify"
    /\ commands' = [commands EXCEPT ![k].pc = "apology"]
    /\ CommandFrame

\* The send of the apology settles; handleError swallows a rejection
\* (bot.js:466-468) and the handler is over.
ApologySettles(k, ok) ==
    /\ commands[k].pc = "apology"
    /\ commands' = [commands EXCEPT ![k].pc = "done"]
    /\ CommandFrame

\* /help (bot.js:822-851): the handler awaits getWaifuImage, which swallows
\* its errors, then starts bot.sendPhoto without awaiting it and returns.
HelpCommand(k, chatId) ==
    /\ Alive
    /\ commands[k].pc \in {"idle", "done"}
    /\ commands' = [commands EXCEPT ![k] =
           [IdleCommand EXCEPT !.pc = "image", !.name = "help",
                               !.text = "/help", !.chatId = chatId]]
    /\ CommandFrame

ImageSettles(k) ==
    /\ commands[k].pc = "image"
    /\ commands' = [commands EXCEPT ![k].pc = "floating_send"]
    /\ CommandFrame

\* The send that /help left behind settles: a rejection belongs to no
\* handler any more.
FloatingSendSettles(k, ok) ==
    /\ commands[k].pc = "floating_send"
    /\ commands' = [commands EXCEPT ![k] = [@ EXCEPT !.pc = "done", !.escaped = ~ok]]
    /\ CommandFrame

\* new_chat_members and left_chat_member (bot.js:1793-1835): the handler
\* awaits bot.sendMessage with no try block around it; when the bot itself
\* left the group nothing is sent.
GroupEvents == {"new_chat_members", "left_chat_member"}
GroupEvent(k, event, isBot, chatId) ==
    /\ Alive
    /\ commands[k].pc \in {"idle", "done"}
    /\ commands' = [commands EXCEPT ![k] =
           [IdleCommand EXCEPT
               !.pc = IF event = "left_chat_member" /\ isBot THEN "done" ELSE "greeting",
               !.name = event, !.chatId = chatId]]
    /\ CommandFrame

GreetingSettles(k, ok) ==
    /\ commands[k].pc = "greeting"
    /\ commands' = [commands EXCEPT ![k] = [@ EXCEPT !.pc = "done", !.escaped = ~ok]]
    /\ CommandFrame

InitCmd ==
    /\ defaultPersonality = "friendly"
    /\ StoresFresh
    /\ NoInvocation
    /\ conversationHistory = <<>>
    /\ ctx = NoCtx

NextCmd ==
    \/ \E k \in 1..NumCommands, name \in ArgCommands, chatId \in Chats :
           \E text \in CommandTexts(name) : CommandArrives(k, name, text, chatId)
    \/ \E k \in 1..NumCommands, ok \in BOOLEAN : ReturnedSendSettles(k, ok)
    \/ \E k \in 1..NumCommands, ok \in BOOLEAN : ProgressSettles(k, ok)
    \/ \E k \in 1..NumCommands, ok \in BOOLEAN : CommandChatActionSettles(k, ok)
    \/ \E k \in 1..NumCommands, outcome \in VendorOutcomes : VendorSettles(k, outcome)
    \/ \E k \in 1..NumCommands, ok \in BOOLEAN : CommandSendSettles(k, ok)
    \/ \E k \in 1..NumCommands, ok \in BOOLEAN : ErrorNotified(k, ok)
    \/ \E k \in 1..NumCommands, ok \in BOOLEAN : ApologySettles(k, ok)
    \/ \E k \in 1..NumCommands, chatId \in Chats : HelpCommand(k, chatId)
    \/ \E k \in 1..NumCommands : ImageSettles(k)
    \/ \E k \in 1..NumCommands, ok \in BOOLEAN : FloatingSendSettles(k, ok)
    \/ \E k \in 1..NumCommands, event \in GroupEvents, isBot \in BOOLEAN, chatId \in Chats :
           GroupEvent(k, event, isBot, chatId)
    \/ \E k \in 1..NumCommands, ok \in BOOLEAN : GreetingSettles(k, ok)

SpecCmd == InitCmd /\ [][NextCmd]_vars

\* C22 as claimed: a fault thrown at any point inside any event handler is
\* caught by the handler and handed to handleError, so that no handler lets a
\* rejection escape: no invocation of a command handler or of a group
\* handler ends with a rejection that nothing caught.
C22_NoRejectionEscapes ==
    \A k \in 1..NumCommands : ~commands[k].escaped

\* C24 as claimed: an argument-taking command invoked without its argument
\* (the command alone, followed by a blank, or addressed to the bot) sends
\* exactly one usage hint, calls no vendor, and neither runs handleError nor
\* notifies the operator.
C24_MissingArgumentGetsOneHint ==
    \A k \in 1..NumCommands :
        (commands[k].name \in {"pin", "ig", "yt", "play", "ssweb", "tiktok",
                               "qr", "sc", "profil"}
         /\ commands[k].text \in {"/" \o commands[k].name,
                                  "/" \o commands[k].name \o " ",
                                  "/" \o commands[k].name \o "@mybot"}) =>
            /\ commands[k].usage = 1
            /\ commands[k].pc \in {"returned_send", "done"}
            /\ commands[k].vendorCalls = 0
            /\ commands[k].handled = 0
            /\ commands[k].notified = 0


-----------------------------------------------------------------------------
\* The start and the shutdown of the process (bot.js:1725-1780).

\* The module is evaluated up to the await of bot.getMe() (bot.js:1738-1752):
\* the stores are loaded, the handlers and the signal handlers are registered
\* (bot.js:1734-1735) and polling has begun (bot.js:46), so events and
\* signals are served while the handshake is pending.
Start ==
    /\ process \in {"off", "exited", "killed"}
    /\ boots < MaxBoots
    /\ boots' = boots + 1
    /\ process' = "running"
    /\ handshake' = TRUE
    /\ exitCode' = NoExit
    /\ LET loaded == loadConversationHistory(memFile)
       IN  /\ conversationHistory' = loaded.history
           /\ memFile' = IF loaded.threw THEN NoFile ELSE memFile
           /\ corrupted' = IF loaded.threw THEN corrupted + 1 ELSE corrupted
    /\ userCache' = loadUserCache(userCacheFile, {})
    /\ uploadEnabled' = loadUploadStatus(uploadFile, true)
    /\ aiEnabled' = loadAIStatus(aiFile, true)
    /\ savePending' = FALSE
    /\ handlers' = [h \in 1..NumHandlers |-> IdleHandler]
    /\ relays' = [r \in 1..NumRelays |-> IdleRelay]
    /\ commands' = [k \in 1..NumCommands |-> IdleCommand]
    /\ UNCHANGED <<defaultPersonality, errorCall, panelAccounts, clock, userCacheFile, aiFile, uploadFile, ctx,
                   started, toggles, flushes>>

\* bot.getMe() settles (bot.js:1752-1779).  After a success the start goes
\* on to its notice and the backup interval; a rejection is caught by the
\* catch block of the start, which calls process.exit(1), whatever else the
\* process is doing.
HandshakeSettles(ok) ==
    /\ Alive
    /\ handshake
    /\ handshake' = FALSE
    /\ IF ok
       THEN UNCHANGED <<process, exitCode, savePending, handlers, relays, commands>>
       ELSE /\ process' = "killed"
            /\ exitCode' = 1
            /\ savePending' = FALSE
            /\ handlers' = [h \in 1..NumHandlers |-> IdleHandler]
            /\ relays' = [r \in 1..NumRelays |-> IdleRelay]
            /\ commands' = [k \in 1..NumCommands |-> IdleCommand]
    /\ UNCHANGED <<defaultPersonality, errorCall, panelAccounts, clock, boots, toggles, flushes, corrupted,
                   aiEnabled, uploadEnabled, conversationHistory, userCache,
                   memFile, userCacheFile, aiFile, uploadFile, ctx, started>>

InitShutdown ==
    /\ defaultPersonality = "friendly"
    /\ NotStarted
    /\ memFile = NoFile
    /\ userCacheFile = NoFile
    /\ aiFile = NoFile
    /\ uploadFile = NoFile

NextShutdown ==
    \/ Start
    \/ \E ok \in BOOLEAN : HandshakeSettles(ok)
    \/ BackupTimer
    \/ GracefulShutdown
    \/ ProcessExit
    \/ \E k \in 1..NumCommands, name \in ArgCommands, chatId \in Chats :
           \E text \in CommandTexts(name) : CommandArrives(k, name, text, chatId)
    \/ \E k \in 1..NumCommands, ok \in BOOLEAN : ReturnedSendSettles(k, ok)
    \/ \E k \in 1..NumCommands, ok \in BOOLEAN : ProgressSettles(k, ok)
    \/ \E k \in 1..NumCommands, ok \in BOOLEAN : CommandChatActionSettles(k, ok)
    \/ \E k \in 1..NumCommands, outcome \in VendorOutcomes : VendorSettles(k, outcome)
    \/ \E k \in 1..NumCommands, ok \in BOOLEAN : CommandSendSettles(k, ok)
    \/ \E k \in 1..NumCommands, ok \in BOOLEAN : ErrorNotified(k, ok)
    \/ \E k \in 1..NumCommands, ok \in BOOLEAN : ApologySettles(k, ok)

\* Every request the process awaits settles in the end (answer, error or
\* socket timeout): the notification of the shutdown, after which
\* process.exit(0) runs in the same turn, and the handshake of the start.
\* Nothing is assumed about the handlers.
SpecShutdown ==
    /\ InitShutdown
    /\ [][NextShutdown]_vars
    /\ WF_vars(ProcessExit)
    /\ WF_vars(\E ok \in BOOLEAN : HandshakeSettles(ok))

\* C30 as claimed: after SIGINT or SIGTERM the process eventually exits with
\* code 0 (after the flush and the attempt to notify the operator, without
\* waiting for the handlers in flight).
C30_SignalLeadsToExitZero ==
    (process = "stopping") ~> (exitCode = 0)


-----------------------------------------------------------------------------
\* The shared error handler, handleError (bot.js:416-471).

\* The errors the catch blocks hand over: message is error.message and
\* statusCode is error.response.statusCode, 0 when the error has no response
\* or its response has no statusCode (a vendor's answer, a timeout, a
\* TypeError).
Error(message, statusCode) == [message |-> message, statusCode |-> statusCode]
Errors ==
    { Error("timeout of 30000ms exceeded", 0),
      Error("Request failed with status code 500", 0),
      Error("Bad Request: message to edit not found", 0),
      Error("ETELEGRAM: 403 Forbidden: bot was blocked by the user", 403),
      Error("ETELEGRAM: 403 Forbidden: bot is not a member of the group chat", 403),
      Error("ETELEGRAM: 400 Bad Request: bot was blocked by the user", 400),
      Error("ETELEGRAM: 400 Bad Request: chat not found", 400),
      Error("ETELEGRAM: 400 Bad Request: message to edit not found", 400),
      Error("ETELEGRAM: 400 Bad Request: can't parse entities: unclosed tag", 400),
      Error("ETELEGRAM: 400 Bad Request: message is not modified", 400),
      Error("ETELEGRAM: 429 Too Many Requests: retry after 5", 429) }

\* The context argument: chatId 0 stands for a context without chat, the
\* default {} of the parameter (bot.js:416).
ErrorContexts == {[chatId |-> c] : c \in {0} \cup Chats}

\* String.prototype.includes.
includes(text, pat) == indexOf(text, pat) > 0

\* The texts for the user (bot.js:419, 441-453).
GeneralErrorMessage == "BOT_CONFIG.errorMessages.general"
ForbiddenMessage == "Maaf, saya tidak diizinkan untuk mengirim pesan di sini."
BlockedMessage == "Anda memblokir bot."
ChatNotFoundMessage == "Obrolan tidak ditemukan."
ParseMessage == "Terjadi kesalahan dalam format pesan."
TelegramErrorMessage(code) ==
    IF code = 429 THEN "Terjadi kesalahan Telegram API (429)."
    ELSE "Terjadi kesalahan Telegram API (400)."

\* A handler that answers the stale edit like any other Telegram error.
errorMessageForUserNoSuppress(error) ==
    IF error.statusCode = 0 THEN GeneralErrorMessage
    ELSE IF error.statusCode = 403 THEN ForbiddenMessage
    ELSE IF error.statusCode = 400 /\ includes(error.message, "bot was blocked by the user")
         THEN BlockedMessage
    ELSE IF error.statusCode = 400 /\ includes(error.message, "chat not found")
         THEN ChatNotFoundMessage
    ELSE IF error.statusCode = 400 /\ includes(error.message, "can't parse entities")
         THEN ParseMessage
    ELSE TelegramErrorMessage(error.statusCode)

\* errorMessageForUser when the handler reaches notifyAdmin (bot.js:419,
\* 436-457): null for the stale edit.
errorMessageForUser(error) ==
    IF error.statusCode = 0 THEN GeneralErrorMessage
    ELSE IF error.statusCode = 403 THEN ForbiddenMessage
    ELSE IF error.statusCode = 400 /\ includes(error.message, "bot was blocked by the user")
         THEN BlockedMessage
    ELSE IF error.statusCode = 400 /\ includes(error.message, "chat not found")
         THEN ChatNotFoundMessage
    ELSE IF error.statusCode = 400
            /\ includes(error.message, "Bad Request: message to edit not found")
         THEN Null
    ELSE IF error.statusCode = 400 /\ includes(error.message, "can't parse entities")
         THEN ParseMessage
    ELSE TelegramErrorMessage(error.statusCode)

ErrorFrame ==
    UNCHANGED <<defaultPersonality, panelAccounts, clock, process, boots,
                toggles, flushes, corrupted, aiEnabled, uploadEnabled,
                conversationHistory, userCache, memFile, userCacheFile,
                aiFile, uploadFile, savePending, handlers, relays, commands,
                handshake, exitCode, ctx, started>>

\* handleError is called and runs up to its await of notifyAdmin
\* (bot.js:416-461).
HandleErrorCalled(error, context) ==
    /\ Alive
    /\ errorCall.pc \in {"none", "done"}
    /\ errorCall' = [pc |-> "notify", error |-> error, context |-> context,
                     errorMessageForUser |-> errorMessageForUser(error),
                     notifications |-> 1, notified |-> FALSE,
                     userSends |-> 0, sent |-> Null, delivered |-> FALSE]
    /\ ErrorFrame

\* notifyAdmin settles; it swallows the rejection of its send
\* (bot.js:408-414).  The user is sent errorMessageForUser if there is one
\* and the context has a chat (bot.js:464-465).
NotifyAdminSettles(ok) ==
    /\ errorCall.pc = "notify"
    /\ errorCall' =
           IF errorCall.errorMessageForUser # Null /\ errorCall.context.chatId # 0
           THEN [errorCall EXCEPT !.pc = "user_send", !.notified = ok,
                                  !.userSends = @ + 1,
                                  !.sent = errorCall.errorMessageForUser]
           ELSE [errorCall EXCEPT !.pc = "done", !.notified = ok]
    /\ ErrorFrame

\* The send to the user settles; its rejection is caught and logged
\* (bot.js:466-468).
UserSendSettles(ok) ==
    /\ errorCall.pc = "user_send"
    /\ errorCall' = [errorCall EXCEPT !.pc = "done", !.delivered = ok]
    /\ ErrorFrame

InitErr ==
    /\ defaultPersonality = "friendly"
    /\ StoresFresh
    /\ NoInvocation
    /\ conversationHistory = <<>>
    /\ ctx = NoCtx

NextErr ==
    \/ \E error \in Errors, context \in ErrorContexts : HandleErrorCalled(error, context)
    \/ \E ok \in BOOLEAN : NotifyAdminSettles(ok)
    \/ \E ok \in BOOLEAN : UserSendSettles(ok)

SpecErr == InitErr /\ [][NextErr]_vars

\* The stale edit: platform code 400 with 'message to edit not found'.
StaleEdit(error) ==
    error.statusCode = 400 /\ includes(error.message, "message to edit not found")

\* The text the claim assigns to an error that is answered.
TailoredTexts == {ForbiddenMessage, BlockedMessage, ChatNotFoundMessage, ParseMessage}
ClaimedText(error, text) ==
    IF error.statusCode = 403 THEN text = ForbiddenMessage
    ELSE IF error.statusCode = 0 THEN text = GeneralErrorMessage
    ELSE IF includes(error.message, "bot was blocked by the user") THEN text = BlockedMessage
    ELSE IF includes(error.message, "chat not found") THEN text = ChatNotFoundMessage
    ELSE IF includes(error.message, "can't parse entities") THEN text = ParseMessage
    ELSE text \notin TailoredTexts /\ text # Null

\* C31: handleError notifies the operator for every error; it sends the user
\* a message if and only if the context has a chat and the error is not the
\* stale edit (code 400, 'message to edit not found'), with the tailored
\* text for code 403, blocked user, chat not found and unparseable text and a
\* generic text otherwise; a send to the user that is rejected ends the call
\* like one that is delivered.
C31_HandleErrorNotifiesAndAnswers ==
    /\ errorCall.pc # "none" => errorCall.notifications = 1
    /\ errorCall.pc \in {"user_send", "done"} =>
          /\ errorCall.userSends = 1 <=>
                (errorCall.context.chatId # 0 /\ ~StaleEdit(errorCall.error))
          /\ errorCall.userSends = 1 => ClaimedText(errorCall.error, errorCall.sent)
          /\ errorCall.userSends \in {0, 1}
    /\ errorCall.pc = "user_send" => ENABLED UserSendSettles(FALSE)

\* A stale edit in a chat was notified to the operator and not answered, a
\* blocked-user error was answered, and an answer that could not be
\* delivered ended the call.
C31_Witness ==
    /\ errorCall.pc = "done"
    /\ \/ StaleEdit(errorCall.error) /\ errorCall.context.chatId # 0
       \/ errorCall.userSends = 1 /\ ~errorCall.delivered


-----------------------------------------------------------------------------
\* The timeouts of the outbound calls of the command handlers.

\* The timeout option, in milliseconds, of the call each command makes to its
\* vendor (bot.js:901, 928, 974, 1049, 1094, 1332, 1373); 0 where the call
\* is made without the option: the two calls of /tiktok (bot.js:1135,
\* 1160-1166).  /qr calls no vendor.
CallTimeout ==
    [name \in ArgCommands |->
        CASE name = "pin" -> 10000
          [] name = "ig" -> 30000
          [] name = "yt" -> 60000
          [] name = "play" -> 60000
          [] name = "ssweb" -> 30000
          [] name = "sc" -> 30000
          [] name = "profil" -> 30000
          [] OTHER -> 0]

\* The timer of a call that was issued with a timeout fires before an answer
\* has come: axios rejects and the catch block hands the error to
\* handleError.
TimeoutFires(k) ==
    /\ commands[k].pc = "vendor"
    /\ CallTimeout[commands[k].name] > 0
    /\ handleError(k)
    /\ CommandFrame

\* A step of the platform: one of the requests sent to Telegram settles.
PlatformSettles(k) ==
    \E ok \in BOOLEAN :
        \/ ReturnedSendSettles(k, ok)
        \/ ProgressSettles(k, ok)
        \/ CommandChatActionSettles(k, ok)
        \/ CommandSendSettles(k, ok)
        \/ ErrorNotified(k, ok)
        \/ ApologySettles(k, ok)

NextTimeout ==
    \/ \E k \in 1..NumCommands, name \in ArgCommands, chatId \in Chats :
           \E text \in CommandTexts(name) : CommandArrives(k, name, text, chatId)
    \/ \E k \in 1..NumCommands : PlatformSettles(k)
    \/ \E k \in 1..NumCommands, outcome \in VendorOutcomes : VendorSettles(k, outcome)
    \/ \E k \in 1..NumCommands : TimeoutFires(k)

\* The platform answers every request and a timer that was set fires; a
\* vendor may never answer, so nothing is assumed about VendorSettles.
SpecTimeout ==
    /\ InitCmd
    /\ [][NextTimeout]_vars
    /\ \A k \in 1..NumCommands : WF_vars(PlatformSettles(k))
    /\ \A k \in 1..NumCommands : WF_vars(TimeoutFires(k))

\* C32 as claimed: every outbound call of every handler carries a timeout,
\* so that every invocation of a handler eventually finishes, also when a
\* vendor never answers.
C32_EveryInvocationFinishes ==
    \A k \in 1..NumCommands :
        (commands[k].pc \notin {"idle", "done"}) ~> (commands[k].pc = "done")


-----------------------------------------------------------------------------
\* The routing of a text message (bot.js:46, 763-770, 1421-1436).

\* The library hands a text message to the callback of bot.on('message') and
\* to the callback of every bot.onText registration whose expression matches
\* the text (the bot is constructed without onlyFirstMatch, bot.js:46).
Matching(text) == {name \in ArgCommands : matches(name, text)}

\* The texts of the messages: free text, free text that mentions a command,
\* a word that begins like a command, an unknown command and a command.
RouteTexts ==
    {"halo", "coba /pin cats", "/pinterest", "/oops",
     "/tiktok https://vt.tiktok.com/x"}

\* The messages of the routing model come from one chat, and the completion
\* endpoint fails or answers with a text.
RouteChats == {1}
RouteResponses == {r \in AIResponses : r.kind \in {"neterr", "result"}}

\* One text message arrives.  The message callback returns at once for a
\* text that starts with "/" (bot.js:770) and otherwise runs up to its first
\* await; the command callbacks that match run up to theirs.
TextArrives(h, k, chatId, userId, text) ==
    /\ Alive
    /\ Cardinality(Matching(text)) <= NumCommands
    /\ IF startsWith(text, "/")
       THEN UNCHANGED <<handlers, userCache, userCacheFile, started>>
       ELSE MessageCallback(h, chatId, userId, text)
    /\ IF Matching(text) = {}
       THEN UNCHANGED commands
       ELSE \E name \in Matching(text) : CommandCallback(k, name, text, chatId)
    /\ UNCHANGED <<defaultPersonality, errorCall, panelAccounts, clock,
                   handshake, exitCode, process, boots, toggles, flushes,
                   corrupted, aiEnabled, uploadEnabled, conversationHistory,
                   memFile, aiFile, uploadFile, savePending, relays, ctx>>

NextRoute ==
    \/ \E h \in 1..NumHandlers, k \in 1..NumCommands, chatId \in RouteChats,
          userId \in Users, text \in RouteTexts :
           TextArrives(h, k, chatId, userId, text)
    \/ \E h \in 1..NumHandlers : AdminNotified(h)
    \/ \E h \in 1..NumHandlers, ok \in BOOLEAN : ChatActionSettles(h, ok)
    \/ \E h \in 1..NumHandlers, resp \in RouteResponses : AIResponds(h, resp)
    \/ \E h \in 1..NumHandlers, ok \in BOOLEAN : ReplySettles(h, ok)
    \/ SaveImmediate
    \/ \E k \in 1..NumCommands : PlatformSettles(k)
    \/ \E k \in 1..NumCommands, outcome \in VendorOutcomes : VendorSettles(k, outcome)

SpecRoute == InitCmd /\ [][NextRoute]_vars

\* An invocation of the message callback that goes on to the AI proxy, and
\* an invocation of a command callback, begin in the step.
StartedHandler(h) == handlers[h].pc = "idle" /\ handlers'[h].pc # "idle"
StartedCommand(k) ==
    commands[k].pc \in {"idle", "done"} /\ commands'[k].pc \notin {"idle", "done"}

\* The command a text names: what stands between the "/" at its start and
\* the first blank or "@".
CommandName(text) ==
    LET rest == SubSeq(text, 2, Len(text))
        ends == {i \in 1..Len(rest) : SubSeq(rest, i, i) \in {" ", "@"}}
    IN  IF ends = {} THEN rest ELSE SubSeq(rest, 1, Min(ends) - 1)

\* C33 as claimed: routing is exclusive.  A message that goes to the AI proxy
\* triggers no command handler, and a command handler is triggered only by a
\* message that starts with "/" and names that command, which does not go to
\* the AI proxy.
C33_RoutingIsExclusive ==
    [][/\ \A h \in 1..NumHandlers, k \in 1..NumCommands :
              ~(StartedHandler(h) /\ StartedCommand(k))
       /\ \A k \in 1..NumCommands :
              StartedCommand(k) =>
                  /\ startsWith(commands'[k].text, "/")
                  /\ CommandName(commands'[k].text) = commands'[k].name]_vars


-----------------------------------------------------------------------------
\* The notification of a new user (bot.js:780-785).

\* C34: the operator is notified of a user at most once while the id stays
\* in the user cache, also when several messages of the user are handled at
\* the same time: a handler begins the notification only in the step in
\* which it finds the id missing, adds it to the cache and saves the cache,
\* so no two handlers are notifying of the same user.
C34_NewUserNotifiedOnce ==
    [][/\ \A h \in 1..NumHandlers :
              (handlers[h].pc = "idle" /\ handlers'[h].pc = "notify") =>
                  /\ handlers'[h].userId \notin userCache
                  /\ handlers'[h].userId \in userCache'
                  /\ userCacheFile' = File(userCache')
       /\ \A g, h \in 1..NumHandlers :
              (g # h /\ handlers'[g].pc = "notify" /\ handlers'[h].pc = "notify") =>
                  handlers'[g].userId # handlers'[h].userId
      ]_vars

\* Two messages of one user are being handled: the first is notifying the
\* operator, the second went on without a notification.
C34_Witness ==
    \E g, h \in 1..NumHandlers :
        /\ handlers[g].pc = "notify"
        /\ handlers[h].pc \notin {"idle", "notify"}
        /\ handlers[g].userId = handlers[h].userId
        /\ handlers[g].userId \in userCache


-----------------------------------------------------------------------------
\* The isolation of the chats.

\* The list of a chat, or Undefined while the chat has none.
HistoryOf(hist, chatId) ==
    IF chatId \in DOMAIN hist THEN hist[chatId] ELSE Undefined

\* The step belongs to an operation performed for the chat: a step of a
\* message handler of the chat, /clear in the chat, or a button pressed in
\* the chat.
OperationFor(chatId) ==
    \/ \E h \in 1..NumHandlers :
           /\ handlers'[h] # handlers[h]
           /\ chatId \in {handlers[h].chatId, handlers'[h].chatId}
    \/ ClearCommand(chatId)
    \/ \E data \in AICallbackData : CallbackQuery(data, chatId, TRUE)

\* C35: the histories of the chats are isolated: a turn, a rollback, /clear,
\* reset_conversation or a personality switch performed for one chat changes
\* the in-memory history of no other chat, so every change of the history of
\* a chat belongs to an operation for that chat and to no operation for
\* another chat.
C35_HistoriesAreIsolated ==
    [][\A b \in Chats :
          HistoryOf(conversationHistory', b) # HistoryOf(conversationHistory, b) =>
              /\ OperationFor(b)
              /\ \A a \in Chats \ {b} :
                     HistoryOf(conversationHistory', a) = HistoryOf(conversationHistory, a)
      ]_vars

\* Chat 1 was reset while chat 2 holds an answered turn.
C35_Witness ==
    /\ DOMAIN conversationHistory = Chats
    /\ conversationHistory[1] = <<>>
    /\ Len(conversationHistory[2]) >= 2
    /\ conversationHistory[2][Len(conversationHistory[2])].role = "assistant"


-----------------------------------------------------------------------------
\* Who flips the feature flags (bot.js:40, 1439-1443, 1524-1559).

\* config.telegram.adminId (bot.js:40) and the users who can press a button
\* of the control panel, which /bot sends to whoever asks (bot.js:991-1029).
AdminId == 100
Pressers == Users \cup {AdminId}
ToggleData == {"toggle_ai", "toggle_upload"}

\* The user `from` presses a button.  The handler reads callbackQuery.from
\* only in its catch block, for the context of handleError (bot.js:1717):
\* what it does with the button does not depend on who pressed it.
ButtonPressed(from, data, chatId) ==
    /\ from \in Pressers
    /\ CallbackQuery(data, chatId, TRUE)

NextPress ==
    \/ Boot
    \/ \E from \in Pressers, data \in ToggleData, chatId \in Chats :
           ButtonPressed(from, data, chatId)
    \/ BackupTimer
    \/ GracefulShutdown
    \/ ProcessExit
    \/ Kill

SpecPress == InitFlags /\ [][NextPress]_vars

\* C36 as claimed: after the loading of the start a flag changes only when
\* the operator (the configured admin id) presses toggle_ai or
\* toggle_upload; no other handler and no timer changes it, and a toggle
\* button pressed by any other user leaves both flags unchanged.
C36_OnlyOperatorFlipsFlags ==
    [][/\ (boots' = boots /\ <<aiEnabled, uploadEnabled>>' # <<aiEnabled, uploadEnabled>>) =>
              \E data \in ToggleData, chatId \in Chats :
                  ButtonPressed(AdminId, data, chatId)
       /\ \A from \in Pressers \ {AdminId}, data \in ToggleData, chatId \in Chats :
              ButtonPressed(from, data, chatId) =>
                  <<aiEnabled, uploadEnabled>>' = <<aiEnabled, uploadEnabled>>
      ]_vars


-----------------------------------------------------------------------------
\* The panel accounts: the create_panel_<plan> buttons, createPanelAccount
\* and the ledger panel_accounts.json (bot.js:272-384, 1635-1714).

\* The instants of the model, in milliseconds after ClockBase, an instant
\* whose last six decimal digits are zero: two instants of one millisecond
\* are the same instant, and OneMillion milliseconds are 16 min 40 s.
OneMillion == 1000000
Instants == {0, 1, 2, OneMillion, OneMillion + 1}

\* Number.prototype.toString for a natural number.
Digit(d) == SubSeq("0123456789", d + 1, d + 1)
RECURSIVE DecimalOf(_)
DecimalOf(n) == IF n < 10 THEN Digit(n) ELSE DecimalOf(n \div 10) \o Digit(n % 10)

\* Date.now().toString().slice(-6) (bot.js:275): the last six digits of the
\* thirteen of the clock.
RECURSIVE Digits(_, _)
Digits(n, count) ==
    IF count = 0 THEN "" ELSE Digits(n \div 10, count - 1) \o Digit(n % 10)
timestamp(now) == Digits(now % OneMillion, 6)

\* The username of a new account (bot.js:276).
usernameOf(userId, now) == "user_" \o DecimalOf(userId) \o "_" \o timestamp(now)

\* generateRandomPassword (bot.js:323-330) draws its characters at random.
Passwords == {"aB3dE6gH9jK2", "Zy8xW7vU6tS5"}

\* The plans of the buttons (bot.js:1641-1654) with size and days, and a
\* button data that names none.
PackageInfo ==
    [p \in {"1gb", "admin"} |->
        IF p = "1gb" THEN [size |-> "1GB", duration |-> 30]
        ELSE [size |-> "Admin", duration |-> 365]]
PackageTypes == DOMAIN PackageInfo \cup {"11gb"}

\* The record savePanelAccountData is given (bot.js:291-299); expiresAt is
\* kept as the instant of creation and the days added to it.
AccountData(username, password, userId, package, now) ==
    [username |-> username, password |-> password, userId |-> userId,
     userName |-> "User", package |-> PackageInfo[package].size,
     createdAt |-> now,
     expiresAt |-> [from |-> now, days |-> PackageInfo[package].duration]]

\* What becomes of fs.writeFileSync: the file is written; the file cannot be
\* opened for writing and stays as it is; the device is full, and the file,
\* which was truncated when it was opened, is left cut off.
WriteOutcomes == {"written", "refused", "truncated"}

\* savePanelAccountData (bot.js:364-384): reads the ledger if there is one,
\* pushes the record, writes the ledger back.  An exception of the parse or
\* of the write is caught and logged.
savePanelAccountData(file, accountData, write) ==
    IF file.exists /\ ~file.parses THEN file
    ELSE LET accounts == IF file.exists THEN file.data ELSE <<>>
         IN  CASE write = "written" -> File(Append(accounts, accountData))
               [] write = "refused" -> file
               [] OTHER -> Garbled("")

\* The ledgers a process may find: none, one that is not JSON, an empty one,
\* one with an account of an earlier run.
PanelFiles ==
    {NoFile, Garbled(""), File(<<>>),
     File(<<AccountData("user_7_000000", "Qq1", 7, "1gb", 0)>>)}

\* The number of the records of a ledger that can be read.
Accounts(file) == IF file.exists /\ file.parses THEN file.data ELSE <<>>

\* A create_panel_<plan> button is pressed (bot.js:1635-1663, 272-288), at
\* an instant after those of the events before it, since the handler has
\* awaited bot.answerCallbackQuery (bot.js:1442).  For an unknown plan the
\* handler returns the send of a refusal; otherwise createPanelAccount makes
\* the username from the clock, draws a password and awaits callPanelAPI.
CreatePanelPressed(k, userId, chatId, packageType, password, now) ==
    /\ Alive
    /\ commands[k].pc \in {"idle", "done"}
    /\ Len(Accounts(panelAccounts)) < MaxAccounts
    /\ now \in Instants
    /\ now > clock
    /\ clock' = now
    /\ commands' = [commands EXCEPT ![k] =
           IF packageType \notin DOMAIN PackageInfo
           THEN [IdleCommand EXCEPT !.pc = "returned_send", !.name = "create_panel",
                                    !.chatId = chatId, !.userId = userId]
           ELSE [IdleCommand EXCEPT !.pc = "panel_api", !.name = "create_panel",
                                    !.chatId = chatId, !.userId = userId,
                                    !.package = packageType,
                                    !.username = usernameOf(userId, now),
                                    !.password = password]]
    /\ UNCHANGED <<defaultPersonality, errorCall, panelAccounts, process,
                   boots, toggles, flushes, corrupted, aiEnabled,
                   uploadEnabled, conversationHistory, userCache, memFile,
                   userCacheFile, aiFile, uploadFile, savePending, handlers,
                   relays, handshake, exitCode, ctx, started>>

\* callPanelAPI settles (bot.js:333-361); it catches its own errors.  After
\* a success createPanelAccount awaits savePanelAccountData, which runs in
\* one synchronous step, and returns a success whatever became of the save
\* (bot.js:289-307); the handler then sends the account to the user.
\* Otherwise the handler sends the text of the failure (bot.js:1709).
PanelApiSettles(k, success, write) ==
    /\ commands[k].pc = "panel_api"
    /\ IF success
       THEN LET c == commands[k]
                accountData == AccountData(c.username, c.password, c.userId,
                                           c.package, clock)
            IN  /\ panelAccounts' = savePanelAccountData(panelAccounts, accountData, write)
                /\ commands' = [commands EXCEPT ![k] =
                       [@ EXCEPT !.pc = "panel_reply",
                                 !.appended =
                                     /\ panelAccounts'.exists /\ panelAccounts'.parses
                                     /\ panelAccounts'.data =
                                            Append(Accounts(panelAccounts), accountData)]]
       ELSE /\ commands' = [commands EXCEPT ![k].pc = "panel_refusal"]
            /\ UNCHANGED panelAccounts
    /\ UNCHANGED <<defaultPersonality, errorCall, clock, process, boots,
                   toggles, flushes, corrupted, aiEnabled, uploadEnabled,
                   conversationHistory, userCache, memFile, userCacheFile,
                   aiFile, uploadFile, savePending, handlers, relays,
                   handshake, exitCode, ctx, started>>

\* The send of the account to the user settles (bot.js:1686-1695); the
\* handler goes on to notify the operator.  A rejection is caught by the
\* inner catch block, which sends a failure text (bot.js:1711-1714).
PanelReplySettles(k, ok) ==
    /\ commands[k].pc = "panel_reply"
    /\ commands' = [commands EXCEPT ![k].pc = IF ok THEN "reported" ELSE "send"]
    /\ CommandFrame

\* The send of the text of the failure settles (bot.js:1709); a rejection is
\* caught by the inner catch block as well.
PanelRefusalSettles(k, ok) ==
    /\ commands[k].pc = "panel_refusal"
    /\ commands' = [commands EXCEPT ![k].pc = IF ok THEN "done" ELSE "send"]
    /\ CommandFrame

\* notifyAdmin settles (bot.js:1698-1705) and the handler is over.
PanelNotified(k) ==
    /\ commands[k].pc = "reported"
    /\ commands' = [commands EXCEPT ![k].pc = "done"]
    /\ CommandFrame

InitPanel ==
    /\ defaultPersonality = "friendly"
    /\ process = "running"
    /\ boots = 1
    /\ toggles = <<>>
    /\ flushes = 0
    /\ corrupted = 0
    /\ aiEnabled = true
    /\ uploadEnabled = true
    /\ userCache = {}
    /\ memFile = NoFile
    /\ userCacheFile = NoFile
    /\ aiFile = NoFile
    /\ uploadFile = NoFile
    /\ savePending = FALSE
    /\ handshake = FALSE
    /\ exitCode = NoExit
    /\ errorCall = NoErrorCall
    /\ clock = 0
    /\ panelAccounts \in PanelFiles
    /\ NoInvocation
    /\ conversationHistory = <<>>
    /\ ctx = NoCtx

NextPanel ==
    \/ \E k \in 1..NumCommands, userId \in Users, chatId \in Chats,
          packageType \in PackageTypes, password \in Passwords, now \in Instants :
           CreatePanelPressed(k, userId, chatId, packageType, password, now)
    \/ \E k \in 1..NumCommands, success \in BOOLEAN, write \in WriteOutcomes :
           PanelApiSettles(k, success, write)
    \/ \E k \in 1..NumCommands, ok \in BOOLEAN : PanelReplySettles(k, ok)
    \/ \E k \in 1..NumCommands, ok \in BOOLEAN : PanelRefusalSettles(k, ok)
    \/ \E k \in 1..NumCommands : PanelNotified(k)
    \/ \E k \in 1..NumCommands, ok \in BOOLEAN : ReturnedSendSettles(k, ok)
    \/ \E k \in 1..NumCommands, ok \in BOOLEAN : CommandSendSettles(k, ok)
    \/ \E k \in 1..NumCommands, ok \in BOOLEAN : ErrorNotified(k, ok)
    \/ \E k \in 1..NumCommands, ok \in BOOLEAN : ApologySettles(k, ok)

SpecPanel == InitPanel /\ [][NextPanel]_vars

\* The second ledger is the first with records appended at its end.
Extends(before, after) ==
    /\ after.exists /\ after.parses
    /\ Len(after.data) >= Len(Accounts(before))
    /\ SubSeq(after.data, 1, Len(Accounts(before))) = Accounts(before)
    /\ before.exists => before.parses

\* C37 as claimed: a creation that is reported to the user as successful has
\* appended exactly one record to the end of the ledger and left the earlier
\* records as they were, and no operation removes or rewrites a record of
\* the ledger.
C37_LedgerIsAppendOnly ==
    [][/\ panelAccounts' # panelAccounts => Extends(panelAccounts, panelAccounts')
       /\ \A k \in 1..NumCommands :
              (commands[k].pc = "panel_reply" /\ commands'[k].pc = "reported") =>
                  commands[k].appended
      ]_vars

\* C39 as claimed: panel usernames are unique: the ledger never holds two
\* records with the same username, whatever the instants of the creations.
C39_UsernamesAreUnique ==
    \A i, j \in 1..Len(Accounts(panelAccounts)) :
        i # j => Accounts(panelAccounts)[i].username # Accounts(panelAccounts)[j].username


-----------------------------------------------------------------------------
\* The temporary file of /ssweb (bot.js:1089-1117).

\* C38 as claimed: when an invocation of the /ssweb handler has finished,
\* with the screenshot sent or with an error, the temporary file it wrote
\* exists no more.
C38_TempFileIsRemoved ==
    \A k \in 1..NumCommands :
        (commands[k].name = "ssweb" /\ commands[k].pc = "done") => ~commands[k].tempFile

====
